---- MODULE Spec2Model ----
(***************************************************************************)
(* A model of the command-execution / log-streaming engine of the          *)
(* mccontrol package (NewNanCity/K8sConsole):                              *)
(*                                                                         *)
(*   - the Follow task of FetchLogs        (pkg/mccontrol/logs.go)         *)
(*   - rconExecutor, the Protocol Session  (the executor file, README.md)  *)
(*   - CommandSession and sessionManager   (the session file, README.md)   *)
(*   - updatePodInfoIfNeeded, the Discovery Cache (controller, README.md)  *)
(*   - CreateCommandExecutor and the facade operations (executor.go)       *)
(*   - findAndUpdatePodInfo: the selection and the identity fields         *)
(*   - the websocket Manager and the SSE Broker (internal/)                *)
(*                                                                         *)
(* The components share no state, so each has its own variables, its own   *)
(* initial predicate and next-state relation and its own specification;    *)
(* Spec is their composition.                                              *)
(***************************************************************************)
EXTENDS Integers, Sequences, FiniteSets

VARIABLES
    \* ---- Follow task of FetchLogs
    nProduced,          \* the backend has produced the lines with timestamps 1..nProduced
    pc,                 \* position of the follow goroutine
    buffer,             \* buffer: lines read and not yet passed to the callback
    lastLogTimestamp,   \* the cursor; 0 is the zero time
    retryCount,
    latestTimestamp,    \* tryReconnect's local, between its catch-up and its reopen
    readerPos,          \* timestamp of the next line currentReader's stream yields
    readerClosed,       \* the stream under currentReader has been closed
    readerInitial,      \* currentReader still wraps the stream FetchLogs opened
    streamNil,          \* currentStream == nil
    fetchReturned,      \* FetchLogs has returned to its caller (its defer has run)
    ctxDone,            \* m.ctx is cancelled
    stopSignal,         \* options.StopSignal is ready
    untilPassed,        \* options.UntilTime is set and lies in the past
    delivered,          \* per line: how often it was passed to callback(lines, "")
    caughtUp,           \* history: a catch-up has delivered a line
    openStreams,        \* history: log streams opened for the task and not yet closed
    refreshFailed,      \* history: the forced refresh of the running tryReconnect failed
    currentDelay,       \* currentDelay of the last backoff wait in seconds, 0: none yet
    \* ---- rconExecutor (the Protocol Session)
    connected,          \* e.connected
    authenticated,      \* e.authenticated
    clientUp,           \* e.client holds a live, authenticated connection
    rMutex,             \* e.mutex: 0 when free, else the caller holding it
    rpc,                \* per caller: position in its operation
    rRetry,             \* per caller: retryCount of its ExecuteCommand
    rResult,            \* per caller: what its ExecuteCommand returns
    rFails,             \* history, per call: failed connect/authenticate/command primitives
    rAttempts,          \* history, per call: invocations of client.Command
    rRejected,          \* history, per call: the server rejected the password
    netUp,              \* the RCON server can be reached
    passwordOk,         \* the server accepts e.password
    \* ---- CommandSession and sessionManager
    created,            \* the sessions CreateCommandSession has returned
    registry,           \* the keys of sessionManager.sessions
    regLocked,          \* sessionManager.mutex is held (across steps: by the sweep only)
    sMutex,             \* per session: s.mutex, 0 when free, else the thread holding it
    sIdle,              \* per session: time.Since(s.lastUsed) > s.idleTimeout
    exConnected,        \* per session: its executor is connected
    sClosed,            \* history, per session: a Close() has disconnected it
    cpc,                \* per client: position in its operation
    cTarget,            \* per client: the session it operates on (0: none)
    cQueue,             \* per client: sessions it still has to Close()
    cResult,            \* per client: what its operation returns
    spc,                \* position of the cleanup goroutine
    sToScan,            \* cleanupIdleSessions: sessions the scan has yet to visit
    idleSessions,       \* cleanupIdleSessions: idle ids not yet removed
    sCur,               \* cleanupIdleSessions: the session being closed (0: none)
    sFound,             \* history: sessions the current sweep found idle
    sSwept,             \* history: sessions the current sweep has disconnected
    \* ---- updatePodInfoIfNeeded (the Discovery Cache)
    dBuilt,             \* NewMinecraftController has returned the controller
    sincePodInfoUpdate, \* time.Since(m.lastPodInfoUpdate), saturated at the interval
    dMutex,             \* m.podInfoUpdateMutex: 0 when free, else the holder
    dpc,                \* per thread: position in updatePodInfoIfNeeded
    dForce,             \* per thread: forceUpdate of its call
    dDid,               \* history, per call: it has called findAndUpdatePodInfo
    dWaited,            \* history, per call: it waited for the mutex during a discovery
    dTicked,            \* history, per call: time has passed since the call began
    \* ---- CreateCommandExecutor and the facade ExecuteCommand
    fBuilt,             \* NewMinecraftController has returned the controller
    rconPortSet,        \* m.rconPort != 0
    idConfigured,       \* m.namespace != "" and m.containerName != ""
    podNameSet,         \* m.currentPodName != ""
    fFresh,             \* time.Since(m.lastPodInfoUpdate) < m.podInfoUpdateInterval
    fMatch,             \* the pod label selector matches at least one pod
    fpc,                \* position of the caller
    fOp,                \* "create": CreateCommandExecutor(Auto); "facade": ExecuteCommand;
                        \* "status": CheckServerStatus; "logs": FetchLogs up to its stream
    fLog,               \* history, per call: the create functions, identity-dependent
                        \* operations and forced refreshes done, with outcomes
    fExec,              \* the executor the creation returned ("none": nil)
    fErr,               \* the operation returns an error
    fConnected,         \* the executor's connected flag
    fLink,              \* the rconExecutor's client holds an open connection
    fComplete,          \* the execExecutor's podName, namespace, containerName are non-empty
    \* ---- FetchLogs without a callback (one-shot)
    opc,                \* "emit": the backend writes; "read": the read loop; "returned"
    oStream,            \* the bytes of the log stream not yet read
    oExpected,          \* history: the content of every line the backend emitted
    logEntries,         \* the entries collected by the read loop
    \* ---- findAndUpdatePodInfo: the selection of the pod
    podItems,           \* pods.Items as the API lists them: records of phase and start time
    selectedPod,        \* index in the listing of the pod last selected, 0: none yet
    listFailed,         \* history: the last List call returned an error
    findErr,            \* history: the last findAndUpdatePodInfo returned an error
    \* ---- the identity an executor works with
    currentPodName,     \* the instance m.currentPodName and m.serverIP name
    exType,             \* per session: type of its executor, "none" without a session
    exPodName,          \* per session: e.podName or e.serverIP of its executor, 0: none
    addressed,          \* history, per session: the instance its last call went to, 0: none
    \* ---- the identity fields, written by a refresh and read without a lock
    mPodName,           \* the instance m.currentPodName (and m.status.PodName) names
    mServerIP,          \* the instance m.serverIP (and m.status.ClusterIP) is the address of
    mPodStatus,         \* the instance m.status.PodStatus is the phase of
    upc,                \* position of the refresh in its assignments
    uSelected,          \* selectedPod of the running refresh
    obsPc,              \* per reader: position in its reads
    obsName,            \* per reader: the instance whose name it read, 0: not read
    obsIP,              \* per reader: the instance whose address it read, 0: not read
    obsStatus,          \* per reader: the instance whose phase it read, 0: not read
    \* ---- websocket Manager
    wsFresh,            \* clients that have not asked to be registered yet
    wsClients,          \* ids in m.clients (and in the room table)
    wsClosed,           \* per client: client.Closed
    wsSend,             \* per client: messages queued in client.Send
    wsRLocked,          \* the run loop holds m.mutex for reading
    wspc,               \* position of the run loop
    wsCur,              \* the client the run loop is handling, 0: none
    wsToSend,           \* clients the running broadcast has still to reach
    \* ---- SSE Broker
    hpc,                \* per client: position of its ServeHTTP and CloseNotify goroutine
    sseClients,         \* ids in b.clients (and in the topic table)
    sseChannel,         \* per client: messages queued in client.Channel
    sseRLocked,         \* the listen loop holds b.mutex for reading
    lpc,                \* position of the listen loop
    sseCur,             \* the client whose close the listen loop requests, 0: none
    sseToSend           \* clients the running publish has still to reach

logVars == <<nProduced, pc, buffer, lastLogTimestamp, retryCount, latestTimestamp,
             readerPos, readerClosed, readerInitial, streamNil, fetchReturned,
             ctxDone, stopSignal, untilPassed, delivered, caughtUp, openStreams,
             refreshFailed, currentDelay>>

rconVars == <<connected, authenticated, clientUp, rMutex, rpc, rRetry, rResult,
              rFails, rAttempts, rRejected, netUp, passwordOk>>

sessVars == <<created, registry, regLocked, sMutex, sIdle, exConnected, sClosed,
              cpc, cTarget, cQueue, cResult, spc, sToScan, idleSessions, sCur,
              sFound, sSwept>>

discVars == <<dBuilt, sincePodInfoUpdate, dMutex, dpc, dForce, dDid, dWaited,
              dTicked>>

facVars == <<fBuilt, rconPortSet, idConfigured, podNameSet, fFresh, fMatch, fpc,
             fOp, fLog, fExec, fErr, fConnected, fLink, fComplete>>

oneVars == <<opc, oStream, oExpected, logEntries>>

selVars == <<podItems, selectedPod, listFailed, findErr>>

idVars == <<currentPodName, exType, exPodName, addressed>>

fldVars == <<mPodName, mServerIP, mPodStatus, upc, uSelected, obsPc, obsName,
             obsIP, obsStatus>>

wsVars == <<wsFresh, wsClients, wsClosed, wsSend, wsRLocked, wspc, wsCur,
            wsToSend>>

sseVars == <<hpc, sseClients, sseChannel, sseRLocked, lpc, sseCur, sseToSend>>

vars ==
    <<logVars, rconVars, sessVars, discVars, facVars, oneVars, selVars, idVars,
      fldVars, wsVars, sseVars>>

\* What the actions of one component leave alone.
nonLogVars ==
    <<rconVars, sessVars, discVars, facVars, oneVars, selVars, idVars,
      fldVars, wsVars, sseVars>>
nonRconVars ==
    <<logVars, sessVars, discVars, facVars, oneVars, selVars, idVars,
      fldVars, wsVars, sseVars>>
nonSessVars ==
    <<logVars, rconVars, discVars, facVars, oneVars, selVars, idVars,
      fldVars, wsVars, sseVars>>
nonDiscVars ==
    <<logVars, rconVars, sessVars, facVars, oneVars, selVars, idVars,
      fldVars, wsVars, sseVars>>
nonFacVars ==
    <<logVars, rconVars, sessVars, discVars, oneVars, selVars, idVars,
      fldVars, wsVars, sseVars>>
nonOneVars ==
    <<logVars, rconVars, sessVars, discVars, facVars, selVars, idVars,
      fldVars, wsVars, sseVars>>
nonIdVars ==
    <<logVars, rconVars, sessVars, discVars, facVars, oneVars, selVars,
      fldVars, wsVars, sseVars>>
nonFldVars ==
    <<logVars, rconVars, sessVars, discVars, facVars, oneVars, selVars, idVars,
      wsVars, sseVars>>
nonSseVars ==
    <<logVars, rconVars, sessVars, discVars, facVars, oneVars, selVars, idVars,
      fldVars, wsVars>>
nonWsVars ==
    <<logVars, rconVars, sessVars, discVars, facVars, oneVars, selVars, idVars,
      fldVars, sseVars>>
nonSelVars ==
    <<logVars, rconVars, sessVars, discVars, facVars, oneVars, idVars,
      fldVars, wsVars, sseVars>>

(***************************************************************************)
(* Bounds and program constants                                            *)
(***************************************************************************)
MaxLines == 3            \* lines the backend produces in a run
BatchSize == 2           \* options.BatchSize of the run
LogMaxRetries == 5       \* maxRetries of the follow task
retryDelay == 1          \* retryDelay of the follow task, in seconds
maxRetryDelay == 30      \* maxRetryDelay of the follow task, in seconds
NumCallers == 2          \* concurrent callers of one rconExecutor
RconMaxRetries == 5      \* maxRetries of newRconExecutor
NumSessions == 2         \* sessions created in a run
NumClients == 2          \* concurrent callers of the session operations
MaxFetchLines == 2       \* lines the backend emits for a one-shot query
MaxContentLen == 2       \* bytes of content in a line
NumWsClients == 2        \* websocket clients of a run
SendCap == 1             \* capacity of client.Send (256 in HandleWebSocket)
NumSseClients == 2       \* SSE clients of a run
ChannelCap == 1          \* capacity of client.Channel (256 in ServeHTTP)
NumReaders == 2          \* threads reading the identity fields
NumInstances == 2        \* instances the selector is bound to over time
MaxPods == 3             \* pods the selector matches at most
MaxStart == 2            \* distinct start times of pods
NumRefreshers == 3       \* concurrent callers of updatePodInfoIfNeeded
podInfoUpdateInterval == 5   \* minutes

Lines == 1..MaxLines

Max(a, b) == IF a > b THEN a ELSE b

(***************************************************************************)
(* Follow task: helpers                                                    *)
(***************************************************************************)

\* callback(lines, ""): every line of the batch is delivered once more.
Deliver(del, batch) ==
    [l \in Lines |->
        LET n == del[l] + Cardinality({i \in DOMAIN batch : batch[i] = l})
        IN  IF n > 2 THEN 2 ELSE n]

\* The lines a non-follow query started at `since` returns when `k` of them
\* are read before the stream ends or breaks.
LinesFrom(since, k) == [i \in 1..k |-> since + i - 1]

\* catchUpSince := lastTimestamp.Add(time.Nanosecond)
CatchUpSince(lastTimestamp) == lastTimestamp + 1

\* followSince := latestTimestamp.Add(time.Nanosecond); without a cursor the
\* query has no SinceTime (options.SinceTime is nil in this model) and starts
\* at the first line.
FollowSinceLate(latest) == IF latest # 0 THEN latest + 2 ELSE 1
FollowSinceSame(latest) == IF latest # 0 THEN latest ELSE 1
FollowSince(latest) == IF latest # 0 THEN latest + 1 ELSE 1

\* The dedup guard of the catch-up: ok && ts.After(latestTimestamp).
CatchUpKeep(ts, latest) == ts > latest

\* The catch-up's read loop over the lines `lines`, the last read ending the
\* stream (readErr != nil): the batches passed to the callback, concatenated,
\* and latestTimestamp at the end.
RECURSIVE CatchUpLoop(_, _, _, _, _)
CatchUpLoop(lines, missedLogs, batchTs, latest, out) ==
    IF lines = <<>>
    THEN [out    |-> out \o missedLogs,
          latest |-> IF missedLogs # <<>> /\ batchTs > latest THEN batchTs ELSE latest]
    ELSE LET ts   == Head(lines)
             keep == CatchUpKeep(ts, latest)
             m1   == IF keep THEN Append(missedLogs, ts) ELSE missedLogs
             b1   == IF keep /\ ts > batchTs THEN ts ELSE batchTs
         IN  IF Len(m1) >= BatchSize
             THEN CatchUpLoop(Tail(lines), <<>>, 0, Max(b1, latest), out \o m1)
             ELSE CatchUpLoop(Tail(lines), m1, b1, latest, out)

\* A flush rule that lets the buffer grow past the batch size.
ShouldFlushLate(buf, elapsed, err) ==
    \/ Len(buf) > BatchSize
    \/ Len(buf) > 0 /\ elapsed
    \/ err # "none" /\ Len(buf) > 0

\* A flush rule that leaves the buffer alone on a read error.
ShouldFlushNoError(buf, elapsed, err) ==
    \/ Len(buf) >= BatchSize
    \/ Len(buf) > 0 /\ elapsed

\* The flush rule of the read loop.
ShouldFlush(buf, elapsed, err) ==
    \/ Len(buf) >= BatchSize
    \/ Len(buf) > 0 /\ elapsed
    \/ err # "none" /\ Len(buf) > 0

\* The errors a read can return. A stream that was closed under the reader
\* fails with "http2: response body closed" (a retryable signature) or, on
\* HTTP/1, with "read on closed response body" (not one).
\* math.Pow(2, n)
RECURSIVE Pow2(_)
Pow2(n) == IF n <= 0 THEN 1 ELSE 2 * Pow2(n - 1)

\* A delay that doubles already before the first attempt.
BackoffDelayFromTwo(k) ==
    IF retryDelay * Pow2(k) < maxRetryDelay
    THEN retryDelay * Pow2(k) ELSE maxRetryDelay

\* currentDelay for retryCount = k:
\* math.Min(retryDelay * math.Pow(2, retryCount-1), maxRetryDelay)
BackoffDelay(k) ==
    IF retryDelay * Pow2(k - 1) < maxRetryDelay
    THEN retryDelay * Pow2(k - 1) ELSE maxRetryDelay

ReadErrors ==
    IF readerClosed THEN {"reset", "other"}
    ELSE {"eof", "reset", "other"} \cup (IF ctxDone THEN {"canceled"} ELSE {})

\* isRetryableError && !errors.Is(readErr, context.Canceled); an EOF has been
\* rewritten to "unexpected EOF" unless the end time has passed.
IsRetryable(err) == err \in {"eof", "reset"}

\* Close() of a stream: closing a closed stream releases nothing more.
StreamsAfterClose(n, closed) == IF closed THEN n ELSE n - 1

\* The goroutine's deferred function closes currentStream unless it is nil.
DeferredCloseNever(nil) == FALSE
DeferredClose(nil) == ~nil

\* The goroutine returns: its deferred function runs.
ExitClose ==
    /\ readerClosed' = (readerClosed \/ DeferredClose(streamNil))
    /\ openStreams' = IF DeferredClose(streamNil)
                      THEN StreamsAfterClose(openStreams, readerClosed)
                      ELSE openStreams

\* m.updatePodInfoIfNeeded(true) in tryReconnect: the discovery fails when
\* the selector matches no pod or the API call fails. TRUE: it succeeded.
ForcedRefreshOutcomes == {TRUE, FALSE}

\* req.Stream(m.ctx) cannot succeed once the context is cancelled.
StreamOutcomes == IF ctxDone THEN {FALSE} ELSE {TRUE, FALSE}

(***************************************************************************)
(* Follow task: the environment                                            *)
(***************************************************************************)
Produce ==
    /\ nProduced < MaxLines
    /\ nProduced' = nProduced + 1
    /\ UNCHANGED <<pc, buffer, lastLogTimestamp, retryCount, latestTimestamp,
                   readerPos, readerClosed, readerInitial, streamNil,
                   fetchReturned, ctxDone, stopSignal, untilPassed, delivered,
                   caughtUp,
                   openStreams,
                   refreshFailed>>
    /\ UNCHANGED currentDelay
    /\ UNCHANGED nonLogVars

\* FetchLogs returns []string{}, nil right after starting the goroutine, and
\* its `defer stream.Close()` closes the initial stream.
FetchLogsReturn ==
    /\ ~fetchReturned
    /\ fetchReturned' = TRUE
    /\ readerClosed' = (readerClosed \/ readerInitial)
    /\ openStreams' = IF readerInitial
                      THEN StreamsAfterClose(openStreams, readerClosed)
                      ELSE openStreams
    /\ UNCHANGED <<nProduced, pc, buffer, lastLogTimestamp, retryCount,
                   latestTimestamp, readerPos, readerInitial, streamNil,
                   ctxDone, stopSignal, untilPassed, delivered, caughtUp,
                   refreshFailed>>
    /\ UNCHANGED currentDelay
    /\ UNCHANGED nonLogVars

CancelCtx ==
    /\ ~ctxDone
    /\ ctxDone' = TRUE
    /\ UNCHANGED <<nProduced, pc, buffer, lastLogTimestamp, retryCount,
                   latestTimestamp, readerPos, readerClosed, readerInitial,
                   streamNil, fetchReturned, stopSignal, untilPassed, delivered,
                   caughtUp,
                   openStreams,
                   refreshFailed>>
    /\ UNCHANGED currentDelay
    /\ UNCHANGED nonLogVars

SendStop ==
    /\ ~stopSignal
    /\ stopSignal' = TRUE
    /\ UNCHANGED <<nProduced, pc, buffer, lastLogTimestamp, retryCount,
                   latestTimestamp, readerPos, readerClosed, readerInitial,
                   streamNil, fetchReturned, ctxDone, untilPassed, delivered,
                   caughtUp,
                   openStreams,
                   refreshFailed>>
    /\ UNCHANGED currentDelay
    /\ UNCHANGED nonLogVars

UntilElapses ==
    /\ ~untilPassed
    /\ untilPassed' = TRUE
    /\ UNCHANGED <<nProduced, pc, buffer, lastLogTimestamp, retryCount,
                   latestTimestamp, readerPos, readerClosed, readerInitial,
                   streamNil, fetchReturned, ctxDone, stopSignal, delivered,
                   caughtUp,
                   openStreams,
                   refreshFailed>>
    /\ UNCHANGED currentDelay
    /\ UNCHANGED nonLogVars

(***************************************************************************)
(* Follow task: the goroutine                                              *)
(***************************************************************************)

\* The select at the top of readLoop. A ready ctx.Done() or StopSignal case is
\* taken (either one when both are ready); the default case checks UntilTime.
\* Every exit flushes the buffer first.
FollowCheck ==
    /\ pc = "check"
    /\ \/ /\ ctxDone \/ stopSignal
          /\ delivered' = Deliver(delivered, buffer)
          /\ buffer' = <<>>
          /\ pc' = "done"
          /\ ExitClose
       \/ /\ ~ctxDone /\ ~stopSignal
          /\ IF untilPassed
             THEN /\ delivered' = Deliver(delivered, buffer)
                  /\ buffer' = <<>>
                  /\ pc' = "done"
                  /\ ExitClose
             ELSE /\ pc' = "read"
                  /\ UNCHANGED <<delivered, buffer, readerClosed, openStreams>>
    /\ UNCHANGED <<nProduced, lastLogTimestamp, retryCount, latestTimestamp,
                   readerPos, readerInitial, streamNil,
                   fetchReturned, ctxDone, stopSignal, untilPassed, caughtUp,
                   refreshFailed>>
    /\ UNCHANGED currentDelay
    /\ UNCHANGED nonLogVars

\* One pass of the loop body: currentReader.ReadString returns a line, an
\* error or both; the buffer is flushed by the flush rule; the error is
\* handled up to the backoff wait. `elapsed` is
\* time.Since(lastCallbackTime) > maxWaitTime.
FollowRead(gotLine, err, elapsed) ==
    /\ pc = "read"
    /\ gotLine \/ err # "none"
    /\ gotLine => ~readerClosed /\ readerPos <= nProduced
    /\ err # "none" => err \in ReadErrors
    /\ LET buf1 == IF gotLine THEN Append(buffer, readerPos) ELSE buffer
           cur1 == IF gotLine /\ readerPos > lastLogTimestamp
                   THEN readerPos ELSE lastLogTimestamp
           flush == ShouldFlush(buf1, elapsed, err)
       IN  /\ lastLogTimestamp' = cur1
           /\ readerPos' = IF gotLine THEN readerPos + 1 ELSE readerPos
           /\ buffer' = IF flush THEN <<>> ELSE buf1
           /\ delivered' = IF flush THEN Deliver(delivered, buf1) ELSE delivered
    /\ CASE err = "none" ->
                /\ retryCount' = 0
                /\ pc' = "check"
                /\ UNCHANGED <<readerClosed, streamNil, openStreams>>
         [] err = "eof" /\ untilPassed ->
                /\ pc' = "done"
                /\ ExitClose
                /\ UNCHANGED <<retryCount, streamNil>>
         [] IsRetryable(err) /\ ~(err = "eof" /\ untilPassed) ->
                IF retryCount >= LogMaxRetries
                THEN /\ pc' = "done"
                     /\ ExitClose
                     /\ UNCHANGED <<retryCount, streamNil>>
                ELSE /\ retryCount' = retryCount + 1
                     /\ IF streamNil
                        THEN \* currentStream.Close() on a nil interface;
                             \* the deferred function finds it nil
                             /\ pc' = "panic"
                             /\ UNCHANGED <<readerClosed, streamNil, openStreams>>
                        ELSE /\ readerClosed' = TRUE
                             /\ openStreams' = StreamsAfterClose(openStreams,
                                                                 readerClosed)
                             /\ streamNil' = TRUE
                             /\ pc' = "backoff"
         [] OTHER ->
                /\ pc' = "done"
                /\ ExitClose
                /\ UNCHANGED <<retryCount, streamNil>>
    /\ currentDelay' =
         IF /\ IsRetryable(err) /\ ~(err = "eof" /\ untilPassed)
            /\ retryCount < LogMaxRetries /\ ~streamNil
         THEN BackoffDelay(retryCount + 1)
         ELSE currentDelay
    /\ UNCHANGED <<nProduced, latestTimestamp, readerInitial, fetchReturned,
                   ctxDone, stopSignal, untilPassed, caughtUp,
                   refreshFailed>>
    /\ UNCHANGED nonLogVars

FollowReadLine == \E elapsed \in BOOLEAN : FollowRead(TRUE, "none", elapsed)

FollowReadAny ==
    \E gotLine \in BOOLEAN, err \in {"none", "eof", "reset", "other", "canceled"},
       elapsed \in BOOLEAN : FollowRead(gotLine, err, elapsed)

\* The backoff wait: select over time.After(currentDelay), ctx.Done() and
\* StopSignal. A cancellation or stop that is ready ends the task; otherwise
\* the timer fires and tryReconnect(lastLogTimestamp) starts: its forced
\* identity refresh reports a failure through the status callback and
\* tryReconnect goes on.
FollowBackoff ==
    /\ pc = "backoff"
    /\ IF ctxDone \/ stopSignal
       THEN /\ pc' = "done"
            /\ ExitClose
            /\ UNCHANGED <<latestTimestamp, refreshFailed>>
       ELSE /\ pc' = "catchup"
            /\ latestTimestamp' = lastLogTimestamp
            /\ \E ok \in ForcedRefreshOutcomes : refreshFailed' = ~ok
            /\ UNCHANGED <<readerClosed, openStreams>>
    /\ UNCHANGED <<nProduced, buffer, lastLogTimestamp, retryCount, readerPos,
                   readerInitial, streamNil, fetchReturned,
                   ctxDone, stopSignal, untilPassed, delivered, caughtUp>>
    /\ UNCHANGED currentDelay
    /\ UNCHANGED nonLogVars

\* tryReconnect, the catch-up: only with a cursor; a non-follow query from
\* just after the cursor, of which k lines are read before it ends or breaks.
\* The catch-up stream is closed by its own defer before the step ends.
FollowCatchUp ==
    /\ pc = "catchup"
    /\ pc' = "reopen"
    /\ IF latestTimestamp = 0
       THEN UNCHANGED <<latestTimestamp, delivered, caughtUp>>
       ELSE \E ok \in StreamOutcomes :
              IF ~ok
              THEN UNCHANGED <<latestTimestamp, delivered, caughtUp>>
              ELSE LET since == CatchUpSince(latestTimestamp)
                       avail == IF since > nProduced THEN 0 ELSE nProduced - since + 1
                   IN  \E k \in 0..avail :
                         LET r == CatchUpLoop(LinesFrom(since, k), <<>>, 0,
                                              latestTimestamp, <<>>)
                         IN  /\ delivered' = Deliver(delivered, r.out)
                             /\ latestTimestamp' = r.latest
                             /\ caughtUp' = (caughtUp \/ r.out # <<>>)
    /\ UNCHANGED <<nProduced, buffer, lastLogTimestamp, retryCount, readerPos,
                   readerClosed, readerInitial, streamNil, fetchReturned,
                   ctxDone, stopSignal, untilPassed,
                   openStreams,
                   refreshFailed>>
    /\ UNCHANGED currentDelay
    /\ UNCHANGED nonLogVars

\* A reopening that starts from the cursor the catch-up was given.
ReopenCursorStale(lastTimestamp, latest) == lastTimestamp

\* The cursor of followOpts.SinceTime: latestTimestamp, which the catch-up
\* has advanced from tryReconnect's argument lastTimestamp.
ReopenCursor(lastTimestamp, latest) == latest

\* A counter that survives the reconnect.
RetryCountKept(n) == n

\* retryCount = 0 once tryReconnect has returned a stream.
RetryCountAfterReconnect(n) == 0

\* tryReconnect, the reopening of the follow stream, and what readLoop does
\* with its result: on success the stream, the reader and the cursor are
\* replaced and retryCount is reset; on failure readLoop just continues.
FollowReopen ==
    /\ pc = "reopen"
    /\ pc' = "check"
    /\ refreshFailed' = FALSE
    /\ \E ok \in StreamOutcomes :
         IF ok
         THEN /\ readerPos' = FollowSince(ReopenCursor(lastLogTimestamp,
                                                       latestTimestamp))
              /\ readerClosed' = FALSE
              /\ openStreams' = openStreams + 1
              /\ readerInitial' = FALSE
              /\ streamNil' = FALSE
              /\ lastLogTimestamp' = latestTimestamp
              /\ retryCount' = RetryCountAfterReconnect(retryCount)
         ELSE UNCHANGED <<readerPos, readerClosed, openStreams, readerInitial,
                          streamNil, lastLogTimestamp, retryCount>>
    /\ UNCHANGED <<nProduced, buffer, latestTimestamp, fetchReturned, ctxDone,
                   stopSignal, untilPassed, delivered, caughtUp>>
    /\ UNCHANGED currentDelay
    /\ UNCHANGED nonLogVars

FollowTask ==
    FollowCheck \/ FollowReadAny \/ FollowBackoff \/ FollowCatchUp \/ FollowReopen


(***************************************************************************)
(* rconExecutor: the Protocol Session                                      *)
(*                                                                         *)
(* Code between e.mutex.Lock() and the matching Unlock() is one step: no   *)
(* other caller can observe its middle. A caller waiting for the mutex is  *)
(* at the position of the Lock() call, and the step is enabled when the    *)
(* mutex is free.                                                          *)
(***************************************************************************)
Callers == 1..NumCallers

\* What Connect() can do: nothing when already connected and authenticated,
\* else client.Connect() and client.Authenticate(password).
\* client.Connect() fails, or client.Authenticate() returns an error, when the
\* server cannot be reached; Authenticate() returns false when the server
\* rejects the password.
ConnectOutcomes ==
    IF connected /\ authenticated THEN {"already"}
    ELSE IF ~netUp THEN {"connFail", "authErr"}
    ELSE IF ~passwordOk THEN {"authReject"}
    ELSE {"ok"}

ConnectOk(o) == o \in {"already", "ok"}

\* e.connected left set when the authentication fails.
ConnectedAfterNoReset(o) == o \in {"ok", "authErr", "authReject"}

\* e.connected when Connect() returns: set after client.Connect(), reset
\* when Authenticate() returns an error or rejects the password.
ConnectedAfter(o) == o = "ok"

\* The flags and the client after Connect() with outcome o.
ConnectEffect(o) ==
    IF o = "already"
    THEN UNCHANGED <<connected, authenticated, clientUp>>
    ELSE /\ connected' = ConnectedAfter(o)
         /\ authenticated' = (o = "ok")
         /\ clientUp' = (o = "ok")

\* The error Connect() returns: "连接RCON失败" / "RCON认证错误" are connection
\* errors, "RCON认证失败: 密码错误" is the authentication error.
ConnectError(o) == IF o = "authReject" THEN "authErr" ELSE "connErr"

Bump(f, t, cap) == [f EXCEPT ![t] = IF f[t] < cap THEN f[t] + 1 ELSE cap]

\* A loop that gives up one pass later.
IsLastRetryLate(retry) == retry = RconMaxRetries + 1

\* if retryCount == e.maxRetries { return "", fmt.Errorf(...) }
IsLastRetry(retry) == retry = RconMaxRetries

\* ExecuteCommand is called.
ExecCall(t) ==
    /\ rpc[t] = "idle"
    /\ rpc' = [rpc EXCEPT ![t] = "lock"]
    /\ UNCHANGED <<connected, authenticated, clientUp, rMutex, rRetry, rResult,
                   rFails, rAttempts, rRejected>>
    /\ UNCHANGED <<netUp, passwordOk, nonRconVars>>

\* e.mutex.Lock(); e.lastUsed = now; when not connected or not authenticated
\* the mutex is released again for Connect().
ExecLock(t) ==
    /\ rpc[t] = "lock"
    /\ rMutex = 0
    /\ IF connected /\ authenticated
       THEN /\ rMutex' = t
            /\ rpc' = [rpc EXCEPT ![t] = "cmd"]
       ELSE /\ rMutex' = 0
            /\ rpc' = [rpc EXCEPT ![t] = "initConn"]
    /\ UNCHANGED <<connected, authenticated, clientUp, rRetry, rResult, rFails,
                   rAttempts, rRejected>>
    /\ UNCHANGED <<netUp, passwordOk, nonRconVars>>

\* The initial e.Connect(): an error is returned to the caller as it is.
ExecInitConnect(t) ==
    /\ rpc[t] = "initConn"
    /\ rMutex = 0
    /\ \E o \in ConnectOutcomes :
         /\ ConnectEffect(o)
         /\ IF ConnectOk(o)
            THEN /\ rpc' = [rpc EXCEPT ![t] = "relock"]
                 /\ UNCHANGED <<rResult, rFails, rRejected>>
            ELSE /\ rpc' = [rpc EXCEPT ![t] = "relockErr"]
                 /\ rResult' = [rResult EXCEPT ![t] = ConnectError(o)]
                 /\ rFails' = Bump(rFails, t, RconMaxRetries + 2)
                 /\ rRejected' = [rRejected EXCEPT ![t] = (o = "authReject")]
    /\ UNCHANGED <<rMutex, rRetry, rAttempts>>
    /\ UNCHANGED <<netUp, passwordOk, nonRconVars>>

\* e.mutex.Lock() after the initial Connect(): on its error, return (the
\* deferred Unlock releases the mutex); else enter the retry loop.
ExecRelock(t) ==
    /\ rMutex = 0
    /\ \/ /\ rpc[t] = "relockErr"
          /\ rpc' = [rpc EXCEPT ![t] = "ret"]
          /\ UNCHANGED rMutex
       \/ /\ rpc[t] = "relock"
          /\ rpc' = [rpc EXCEPT ![t] = "cmd"]
          /\ rMutex' = t
    /\ UNCHANGED <<connected, authenticated, clientUp, rRetry, rResult, rFails,
                   rAttempts, rRejected>>
    /\ UNCHANGED <<netUp, passwordOk, nonRconVars>>

\* response, err = e.client.Command(cmd), mutex held. A client that is not
\* connected cannot execute; a connected one fails when the server cannot be
\* reached. On failure
\* the flags are cleared and, unless this was the last retry, the mutex is
\* released for the sleep.
ExecCommand(t) ==
    /\ rpc[t] = "cmd"
    /\ rMutex = t
    /\ rAttempts' = Bump(rAttempts, t, RconMaxRetries + 2)
    /\ LET ok == clientUp /\ netUp IN
         IF ok
         THEN /\ rResult' = [rResult EXCEPT ![t] = "ok"]
              /\ rpc' = [rpc EXCEPT ![t] = "ret"]
              /\ UNCHANGED <<connected, authenticated, rFails>>
         ELSE /\ connected' = FALSE
              /\ authenticated' = FALSE
              /\ rFails' = IF clientUp THEN Bump(rFails, t, RconMaxRetries + 2)
                           ELSE rFails
              /\ IF IsLastRetry(rRetry[t])
                 THEN /\ rResult' = [rResult EXCEPT ![t] = "cmdErr"]
                      /\ rpc' = [rpc EXCEPT ![t] = "ret"]
                 ELSE /\ rpc' = [rpc EXCEPT ![t] = "sleep"]
                      /\ UNCHANGED rResult
    /\ rMutex' = 0
    /\ UNCHANGED <<clientUp, rRetry, rRejected>>
    /\ UNCHANGED <<netUp, passwordOk, nonRconVars>>

\* time.Sleep(delay), then e.Connect() (which takes the mutex itself); its
\* error, whatever it is, only leads to `continue`.
ExecReconnect(t) ==
    /\ rpc[t] = "sleep"
    /\ rMutex = 0
    /\ \E o \in ConnectOutcomes :
         /\ ConnectEffect(o)
         /\ IF ConnectOk(o)
            THEN UNCHANGED <<rFails, rRejected>>
            ELSE /\ rFails' = Bump(rFails, t, RconMaxRetries + 2)
                 /\ rRejected' = [rRejected EXCEPT
                                    ![t] = rRejected[t] \/ o = "authReject"]
    /\ rpc' = [rpc EXCEPT ![t] = "relockRetry"]
    /\ UNCHANGED <<rMutex, rRetry, rResult, rAttempts>>
    /\ UNCHANGED <<netUp, passwordOk, nonRconVars>>

\* A pass that starts without taking the mutex again.
RelockSkipped(t) == 0

\* The holder of e.mutex after e.mutex.Lock() behind the reconnect, on
\* its success and on its failure alike.
RelockAfterReconnect(t) == t

\* e.mutex.Lock() after the reconnect, then retryCount++ and the next pass.
ExecRelockRetry(t) ==
    /\ rpc[t] = "relockRetry"
    /\ rMutex = 0
    /\ rMutex' = RelockAfterReconnect(t)
    /\ rRetry' = [rRetry EXCEPT ![t] = rRetry[t] + 1]
    /\ rpc' = [rpc EXCEPT ![t] = "cmd"]
    /\ UNCHANGED <<connected, authenticated, clientUp, rResult, rFails,
                   rAttempts, rRejected>>
    /\ UNCHANGED <<netUp, passwordOk, nonRconVars>>

\* The caller has its result and may call again (the call's locals and
\* history start afresh).
ExecReturn(t) ==
    /\ rpc[t] = "ret"
    /\ rpc' = [rpc EXCEPT ![t] = "idle"]
    /\ rRetry' = [rRetry EXCEPT ![t] = 0]
    /\ rResult' = [rResult EXCEPT ![t] = "none"]
    /\ rFails' = [rFails EXCEPT ![t] = 0]
    /\ rAttempts' = [rAttempts EXCEPT ![t] = 0]
    /\ rRejected' = [rRejected EXCEPT ![t] = FALSE]
    /\ UNCHANGED <<connected, authenticated, clientUp, rMutex>>
    /\ UNCHANGED <<netUp, passwordOk, nonRconVars>>

\* A caller's own e.Connect().
RconConnect(t) ==
    /\ rpc[t] = "idle"
    /\ rMutex = 0
    /\ \E o \in ConnectOutcomes : ConnectEffect(o)
    /\ UNCHANGED <<rMutex, rpc, rRetry, rResult, rFails, rAttempts, rRejected>>
    /\ UNCHANGED <<netUp, passwordOk, nonRconVars>>

\* e.Disconnect()
RconDisconnect(t) ==
    /\ rpc[t] = "idle"
    /\ rMutex = 0
    /\ connected' = FALSE
    /\ authenticated' = FALSE
    /\ clientUp' = IF connected THEN FALSE ELSE clientUp
    /\ UNCHANGED <<rMutex, rpc, rRetry, rResult, rFails, rAttempts, rRejected>>
    /\ UNCHANGED <<netUp, passwordOk, nonRconVars>>

\* The environment: the server becomes unreachable or reachable again, or
\* its password is changed (to or from e.password).
RconNetDrop ==
    /\ netUp
    /\ netUp' = FALSE
    /\ UNCHANGED <<connected, authenticated, clientUp, rMutex, rpc, rRetry,
                   rResult, rFails, rAttempts, rRejected, passwordOk, nonRconVars>>

RconNetRecover ==
    /\ ~netUp
    /\ netUp' = TRUE
    /\ UNCHANGED <<connected, authenticated, clientUp, rMutex, rpc, rRetry,
                   rResult, rFails, rAttempts, rRejected, passwordOk, nonRconVars>>

RconPasswordChange ==
    /\ passwordOk' = ~passwordOk
    /\ UNCHANGED <<connected, authenticated, clientUp, rMutex, rpc, rRetry,
                   rResult, rFails, rAttempts, rRejected, netUp, nonRconVars>>

RconEnv == RconNetDrop \/ RconNetRecover \/ RconPasswordChange

RconInit ==
    /\ netUp = TRUE
    /\ passwordOk = TRUE
    /\ connected = FALSE
    /\ authenticated = FALSE
    /\ clientUp = FALSE
    /\ rMutex = 0
    /\ rpc = [t \in Callers |-> "idle"]
    /\ rRetry = [t \in Callers |-> 0]
    /\ rResult = [t \in Callers |-> "none"]
    /\ rFails = [t \in Callers |-> 0]
    /\ rAttempts = [t \in Callers |-> 0]
    /\ rRejected = [t \in Callers |-> FALSE]

RconStep(t) ==
    \/ ExecCall(t)
    \/ ExecLock(t)
    \/ ExecInitConnect(t)
    \/ ExecRelock(t)
    \/ ExecCommand(t)
    \/ ExecReconnect(t)
    \/ ExecRelockRetry(t)
    \/ ExecReturn(t)
    \/ RconConnect(t)
    \/ RconDisconnect(t)

\* Several callers share the executor.
RconNext == RconEnv \/ \E t \in Callers : RconStep(t)

\* One caller uses the executor.
RconSeqNext == RconEnv \/ RconStep(1)

(***************************************************************************)
(* CommandSession and sessionManager                                       *)
(*                                                                         *)
(* Clients call CreateCommandSession, SessionExecuteCommand,               *)
(* CloseCommandSession, CloseAllCommandSessions and, on a handle they      *)
(* hold, CommandSession.ExecuteCommand and CommandSession.Close. The       *)
(* cleanup goroutine runs cleanupIdleSessions. A client's registry access  *)
(* (Lock, map operation, Unlock) is one step; the sweep holds the registry *)
(* mutex across steps, because IsIdle() waits for session mutexes.         *)
(***************************************************************************)
Sessions == 1..NumSessions
Clients == 1..NumClients
Sweeper == NumClients + 1

\* s.mutex.Lock() returns when the mutex is free.
SessionMutexIgnored(m) == TRUE
SessionMutexFree(m) == m = 0

\* The process runs until the cleanup goroutine panics.
Running == spc # "panic"

\* CreateCommandSession: the executor is created and connected, the session
\* gets a fresh id and is registered.
CreateCommandSession(c) ==
    /\ Running
    /\ cpc[c] = "idle"
    /\ ~regLocked
    /\ Sessions \ created # {}
    /\ LET s == CHOOSE x \in Sessions \ created :
                    \A y \in Sessions \ created : x <= y IN
         /\ created' = created \cup {s}
         /\ registry' = registry \cup {s}
         /\ exConnected' = [exConnected EXCEPT ![s] = TRUE]
         /\ sIdle' = [sIdle EXCEPT ![s] = FALSE]
    /\ UNCHANGED <<regLocked, sMutex, sClosed, cpc, cTarget, cQueue, cResult,
                   spc, sToScan, idleSessions, sCur, sFound, sSwept>>
    /\ UNCHANGED nonSessVars

\* SessionExecuteCommand: the lookup under the registry mutex.
SessionExecuteCommand(c, s) ==
    /\ Running
    /\ cpc[c] = "idle"
    /\ ~regLocked
    /\ IF s \in registry
       THEN /\ cpc' = [cpc EXCEPT ![c] = "execLock"]
            /\ cTarget' = [cTarget EXCEPT ![c] = s]
            /\ UNCHANGED cResult
       ELSE /\ cpc' = [cpc EXCEPT ![c] = "ret"]
            /\ cResult' = [cResult EXCEPT ![c] = "notFound"]
            /\ UNCHANGED cTarget
    /\ UNCHANGED <<created, registry, regLocked, sMutex, sIdle, exConnected,
                   sClosed, cQueue, spc, sToScan, idleSessions, sCur, sFound,
                   sSwept>>
    /\ UNCHANGED nonSessVars

\* CommandSession.ExecuteCommand is called on a handle.
HandleExecuteCommand(c, s) ==
    /\ Running
    /\ cpc[c] = "idle"
    /\ s \in created
    /\ cpc' = [cpc EXCEPT ![c] = "execLock"]
    /\ cTarget' = [cTarget EXCEPT ![c] = s]
    /\ UNCHANGED <<created, registry, regLocked, sMutex, sIdle, exConnected,
                   sClosed, cQueue, cResult, spc, sToScan, idleSessions, sCur,
                   sFound, sSwept>>
    /\ UNCHANGED nonSessVars

\* CommandSession.ExecuteCommand: s.mutex.Lock(); s.lastUsed = time.Now()
ExecuteLock(c) ==
    /\ Running
    /\ cpc[c] = "execLock"
    /\ SessionMutexFree(sMutex[cTarget[c]])
    /\ sMutex' = [sMutex EXCEPT ![cTarget[c]] = c]
    /\ sIdle' = [sIdle EXCEPT ![cTarget[c]] = FALSE]
    /\ cpc' = [cpc EXCEPT ![c] = "inExec"]
    /\ UNCHANGED <<created, registry, regLocked, exConnected, sClosed, cTarget,
                   cQueue, cResult, spc, sToScan, idleSessions, sCur, sFound,
                   sSwept>>
    /\ UNCHANGED nonSessVars

\* s.executor.ExecuteCommand(command) returns: the executor has connected if
\* it was not, and the command succeeded, or it failed and is disconnected.
\* The deferred Unlock releases s.mutex.
ExecuteRun(c) ==
    /\ Running
    /\ cpc[c] = "inExec"
    /\ \E ok \in BOOLEAN :
         /\ exConnected' = [exConnected EXCEPT ![cTarget[c]] = ok]
         /\ cResult' = [cResult EXCEPT ![c] = IF ok THEN "ok" ELSE "err"]
    /\ sMutex' = [sMutex EXCEPT ![cTarget[c]] = 0]
    /\ cpc' = [cpc EXCEPT ![c] = "ret"]
    /\ UNCHANGED <<created, registry, regLocked, sIdle, sClosed, cTarget, cQueue,
                   spc, sToScan, idleSessions, sCur, sFound, sSwept>>
    /\ UNCHANGED nonSessVars

\* CloseCommandSession: lookup and delete under the registry mutex.
CloseCommandSession(c, s) ==
    /\ Running
    /\ cpc[c] = "idle"
    /\ ~regLocked
    /\ IF s \in registry
       THEN /\ registry' = registry \ {s}
            /\ cQueue' = [cQueue EXCEPT ![c] = {s}]
            /\ cpc' = [cpc EXCEPT ![c] = "closeNext"]
            /\ UNCHANGED cResult
       ELSE /\ cpc' = [cpc EXCEPT ![c] = "ret"]
            /\ cResult' = [cResult EXCEPT ![c] = "notFound"]
            /\ UNCHANGED <<registry, cQueue>>
    /\ UNCHANGED <<created, regLocked, sMutex, sIdle, exConnected, sClosed,
                   cTarget, spc, sToScan, idleSessions, sCur, sFound, sSwept>>
    /\ UNCHANGED nonSessVars

\* CloseAllCommandSessions: copy the sessions and empty the map under the
\* registry mutex.
CloseAllCommandSessions(c) ==
    /\ Running
    /\ cpc[c] = "idle"
    /\ ~regLocked
    /\ cQueue' = [cQueue EXCEPT ![c] = registry]
    /\ registry' = {}
    /\ cpc' = [cpc EXCEPT ![c] = "closeNext"]
    /\ UNCHANGED <<created, regLocked, sMutex, sIdle, exConnected, sClosed,
                   cTarget, cResult, spc, sToScan, idleSessions, sCur, sFound,
                   sSwept>>
    /\ UNCHANGED nonSessVars

\* CommandSession.Close is called on a handle: the registry is not touched.
HandleClose(c, s) ==
    /\ Running
    /\ cpc[c] = "idle"
    /\ s \in created
    /\ cQueue' = [cQueue EXCEPT ![c] = {s}]
    /\ cpc' = [cpc EXCEPT ![c] = "closeNext"]
    /\ UNCHANGED <<created, registry, regLocked, sMutex, sIdle, exConnected,
                   sClosed, cTarget, cResult, spc, sToScan, idleSessions, sCur,
                   sFound, sSwept>>
    /\ UNCHANGED nonSessVars

\* CommandSession.Close: s.mutex.Lock(), for the next session to close (the
\* order of a closeAll is the map's iteration order, any order); with
\* nothing left to close the operation returns.
CloseLock(c) ==
    /\ Running
    /\ cpc[c] = "closeNext"
    /\ IF cQueue[c] = {}
       THEN /\ cpc' = [cpc EXCEPT ![c] = "ret"]
            /\ cResult' = [cResult EXCEPT ![c] = "ok"]
            /\ UNCHANGED <<sMutex, cTarget, cQueue>>
       ELSE \E s \in cQueue[c] :
              /\ SessionMutexFree(sMutex[s])
              /\ sMutex' = [sMutex EXCEPT ![s] = c]
              /\ cTarget' = [cTarget EXCEPT ![c] = s]
              /\ cQueue' = [cQueue EXCEPT ![c] = cQueue[c] \ {s}]
              /\ cpc' = [cpc EXCEPT ![c] = "inDisc"]
              /\ UNCHANGED cResult
    /\ UNCHANGED <<created, registry, regLocked, sIdle, exConnected, sClosed,
                   spc, sToScan, idleSessions, sCur, sFound, sSwept>>
    /\ UNCHANGED nonSessVars

\* s.executor.Disconnect(), then the deferred Unlock.
CloseRun(c) ==
    /\ Running
    /\ cpc[c] = "inDisc"
    /\ exConnected' = [exConnected EXCEPT ![cTarget[c]] = FALSE]
    /\ sClosed' = [sClosed EXCEPT ![cTarget[c]] = TRUE]
    /\ sMutex' = [sMutex EXCEPT ![cTarget[c]] = 0]
    /\ cpc' = [cpc EXCEPT ![c] = "closeNext"]
    /\ UNCHANGED <<created, registry, regLocked, sIdle, cTarget, cQueue, cResult,
                   spc, sToScan, idleSessions, sCur, sFound, sSwept>>
    /\ UNCHANGED nonSessVars

\* The client has its result.
ClientReturn(c) ==
    /\ Running
    /\ cpc[c] = "ret"
    /\ cpc' = [cpc EXCEPT ![c] = "idle"]
    /\ cTarget' = [cTarget EXCEPT ![c] = 0]
    /\ cResult' = [cResult EXCEPT ![c] = "none"]
    /\ UNCHANGED <<created, registry, regLocked, sMutex, sIdle, exConnected,
                   sClosed, cQueue, spc, sToScan, idleSessions, sCur, sFound,
                   sSwept>>
    /\ UNCHANGED nonSessVars

\* Time passes: a registered session has been unused for longer than its
\* idleTimeout.
SessionAges(s) ==
    /\ Running
    /\ s \in registry
    /\ ~sIdle[s]
    /\ sIdle' = [sIdle EXCEPT ![s] = TRUE]
    /\ UNCHANGED <<created, registry, regLocked, sMutex, exConnected, sClosed,
                   cpc, cTarget, cQueue, cResult, spc, sToScan, idleSessions,
                   sCur, sFound, sSwept>>
    /\ UNCHANGED nonSessVars

\* cleanupIdleSessions starts on a tick of cleanupTimer: sm.mutex.Lock()
SweepStart ==
    /\ spc = "rest"
    /\ ~regLocked
    /\ regLocked' = TRUE
    /\ sToScan' = registry
    /\ idleSessions' = {}
    /\ sFound' = {}
    /\ sSwept' = {}
    /\ spc' = "scan"
    /\ UNCHANGED <<created, registry, sMutex, sIdle, exConnected, sClosed, cpc,
                   cTarget, cQueue, cResult, sCur>>
    /\ UNCHANGED nonSessVars

\* The scan: session.IsIdle() for the next session of the map (it takes and
\* releases s.mutex); the scan ends when the map is exhausted.
SweepScan ==
    /\ spc = "scan"
    /\ IF sToScan = {}
       THEN /\ spc' = "remove"
            /\ UNCHANGED <<sToScan, idleSessions, sFound>>
       ELSE \E s \in sToScan :
              /\ SessionMutexFree(sMutex[s])
              /\ sToScan' = sToScan \ {s}
              /\ idleSessions' = IF sIdle[s] THEN idleSessions \cup {s}
                                 ELSE idleSessions
              /\ sFound' = IF sIdle[s] THEN sFound \cup {s} ELSE sFound
              /\ UNCHANGED spc
    /\ UNCHANGED <<created, registry, regLocked, sMutex, sIdle, exConnected,
                   sClosed, cpc, cTarget, cQueue, cResult, sCur, sSwept>>
    /\ UNCHANGED nonSessVars

\* The removal loop, registry mutex held: session := sm.sessions[id];
\* delete(sm.sessions, id); sm.mutex.Unlock(). A missing id gives a nil
\* session, and session.Close() on it panics. After the last id the mutex
\* is released and the sweep is over.
SweepRemove ==
    /\ spc = "remove"
    /\ regLocked
    /\ regLocked' = FALSE
    /\ IF idleSessions = {}
       THEN /\ spc' = "rest"
            /\ UNCHANGED <<registry, idleSessions, sCur>>
       ELSE \E id \in idleSessions :
              /\ idleSessions' = idleSessions \ {id}
              /\ registry' = registry \ {id}
              /\ IF id \in registry
                 THEN /\ sCur' = id
                      /\ spc' = "closeLock"
                 ELSE /\ sCur' = 0
                      /\ spc' = "panic"
    /\ UNCHANGED <<created, sMutex, sIdle, exConnected, sClosed, cpc, cTarget,
                   cQueue, cResult, sToScan, sFound, sSwept>>
    /\ UNCHANGED nonSessVars

\* session.Close() of the sweep: s.mutex.Lock()
SweepCloseLock ==
    /\ spc = "closeLock"
    /\ SessionMutexFree(sMutex[sCur])
    /\ sMutex' = [sMutex EXCEPT ![sCur] = Sweeper]
    /\ spc' = "inDisc"
    /\ UNCHANGED <<created, registry, regLocked, sIdle, exConnected, sClosed,
                   cpc, cTarget, cQueue, cResult, sToScan, idleSessions, sCur,
                   sFound, sSwept>>
    /\ UNCHANGED nonSessVars

\* s.executor.Disconnect() and the deferred Unlock.
SweepCloseRun ==
    /\ spc = "inDisc"
    /\ exConnected' = [exConnected EXCEPT ![sCur] = FALSE]
    /\ sClosed' = [sClosed EXCEPT ![sCur] = TRUE]
    /\ sSwept' = sSwept \cup {sCur}
    /\ sMutex' = [sMutex EXCEPT ![sCur] = 0]
    /\ sCur' = 0
    /\ spc' = "relock"
    /\ UNCHANGED <<created, registry, regLocked, sIdle, cpc, cTarget, cQueue,
                   cResult, sToScan, idleSessions, sFound>>
    /\ UNCHANGED nonSessVars

\* sm.mutex.Lock() after the Close.
SweepRelock ==
    /\ spc = "relock"
    /\ ~regLocked
    /\ regLocked' = TRUE
    /\ spc' = "remove"
    /\ UNCHANGED <<created, registry, sMutex, sIdle, exConnected, sClosed, cpc,
                   cTarget, cQueue, cResult, sToScan, idleSessions, sCur, sFound,
                   sSwept>>
    /\ UNCHANGED nonSessVars

SessInit ==
    /\ created = {}
    /\ registry = {}
    /\ regLocked = FALSE
    /\ sMutex = [s \in Sessions |-> 0]
    /\ sIdle = [s \in Sessions |-> FALSE]
    /\ exConnected = [s \in Sessions |-> FALSE]
    /\ sClosed = [s \in Sessions |-> FALSE]
    /\ cpc = [c \in Clients |-> "idle"]
    /\ cTarget = [c \in Clients |-> 0]
    /\ cQueue = [c \in Clients |-> {}]
    /\ cResult = [c \in Clients |-> "none"]
    /\ spc = "rest"
    /\ sToScan = {}
    /\ idleSessions = {}
    /\ sCur = 0
    /\ sFound = {}
    /\ sSwept = {}

ClientStep(c) ==
    \/ CreateCommandSession(c)
    \/ \E s \in Sessions : SessionExecuteCommand(c, s)
    \/ \E s \in Sessions : HandleExecuteCommand(c, s)
    \/ ExecuteLock(c)
    \/ ExecuteRun(c)
    \/ \E s \in Sessions : CloseCommandSession(c, s)
    \/ CloseAllCommandSessions(c)
    \/ \E s \in Sessions : HandleClose(c, s)
    \/ CloseLock(c)
    \/ CloseRun(c)
    \/ ClientReturn(c)

cleanupIdleSessions ==
    SweepStart \/ SweepScan \/ SweepRemove \/ SweepCloseLock \/ SweepCloseRun
        \/ SweepRelock

SessNext ==
    \/ \E c \in Clients : ClientStep(c)
    \/ \E s \in Sessions : SessionAges(s)
    \/ cleanupIdleSessions

(***************************************************************************)
(* updatePodInfoIfNeeded: the Discovery Cache                              *)
(*                                                                         *)
(* Every discovery outside the constructor goes through                    *)
(* updatePodInfoIfNeeded: with forceUpdate = false from the executors, the *)
(* log reader and the status check, with forceUpdate = true after their    *)
(* failures, from ForceUpdatePodInfo and from the goroutines the           *)
(* monitoring ticker starts.                                               *)
(***************************************************************************)
Refreshers == 1..NumRefreshers

\* time.Since(m.lastPodInfoUpdate) < m.podInfoUpdateInterval
Fresh == sincePodInfoUpdate < podInfoUpdateInterval

\* The check before the lock reads m.lastPodInfoUpdate without
\* synchronisation: while findAndUpdatePodInfo runs in another thread the
\* read races with its write and can give either answer.
FastCheckOutcomes ==
    IF \E u \in Refreshers : dpc[u] = "disc" THEN BOOLEAN ELSE {Fresh}

\* m.podInfoUpdateMutex.Lock() returns when the mutex is free.
PodInfoMutexIgnored(m) == TRUE
PodInfoMutexFree(m) == m = 0

\* updatePodInfoIfNeeded(force) is called: the check without the lock.
RefreshCall(t, force) ==
    /\ dBuilt
    /\ dpc[t] = "idle"
    /\ dForce' = [dForce EXCEPT ![t] = force]
    /\ \E fresh \in FastCheckOutcomes :
         IF ~force /\ fresh
         THEN /\ dpc' = [dpc EXCEPT ![t] = "ret"]
              /\ UNCHANGED dWaited
         ELSE /\ dpc' = [dpc EXCEPT ![t] = "lock"]
              /\ dWaited' = [dWaited EXCEPT
                                ![t] = \E u \in Refreshers : dpc[u] = "disc"]
    /\ UNCHANGED <<sincePodInfoUpdate, dMutex, dDid, dTicked>>
    /\ UNCHANGED <<dBuilt, nonDiscVars>>

\* m.podInfoUpdateMutex.Lock() and the check under the lock: return (the
\* deferred Unlock releases the mutex) or go on to findAndUpdatePodInfo.
RefreshLock(t) ==
    /\ dpc[t] = "lock"
    /\ PodInfoMutexFree(dMutex)
    /\ IF ~dForce[t] /\ Fresh
       THEN /\ dpc' = [dpc EXCEPT ![t] = "ret"]
            /\ UNCHANGED <<dMutex, dDid, dWaited>>
       ELSE /\ dpc' = [dpc EXCEPT ![t] = "disc"]
            /\ dMutex' = t
            /\ dDid' = [dDid EXCEPT ![t] = TRUE]
            /\ dWaited' = [u \in Refreshers |->
                              dWaited[u] \/ (u # t /\ dpc[u] = "lock")]
    /\ UNCHANGED <<sincePodInfoUpdate, dForce, dTicked>>
    /\ UNCHANGED <<dBuilt, nonDiscVars>>

\* findAndUpdatePodInfo returns: m.lastPodInfoUpdate = time.Now() on success
\* only; then the deferred Unlock.
findAndUpdatePodInfo(t) ==
    /\ dpc[t] = "disc"
    /\ \E ok \in BOOLEAN :
         sincePodInfoUpdate' = IF ok THEN 0 ELSE sincePodInfoUpdate
    /\ dMutex' = 0
    /\ dpc' = [dpc EXCEPT ![t] = "ret"]
    /\ UNCHANGED <<dForce, dDid, dWaited, dTicked>>
    /\ UNCHANGED <<dBuilt, nonDiscVars>>

\* updatePodInfoIfNeeded has returned.
RefreshReturn(t) ==
    /\ dpc[t] = "ret"
    /\ dpc' = [dpc EXCEPT ![t] = "idle"]
    /\ dForce' = [dForce EXCEPT ![t] = FALSE]
    /\ dDid' = [dDid EXCEPT ![t] = FALSE]
    /\ dWaited' = [dWaited EXCEPT ![t] = FALSE]
    /\ dTicked' = [dTicked EXCEPT ![t] = FALSE]
    /\ UNCHANGED <<sincePodInfoUpdate, dMutex>>
    /\ UNCHANGED <<dBuilt, nonDiscVars>>

\* A minute passes.
Tick ==
    /\ dBuilt
    /\ sincePodInfoUpdate' = IF Fresh THEN sincePodInfoUpdate + 1
                             ELSE sincePodInfoUpdate
    /\ dTicked' = [t \in Refreshers |-> dpc[t] # "idle"]
    /\ \/ sincePodInfoUpdate' # sincePodInfoUpdate
       \/ dTicked' # dTicked
    /\ UNCHANGED <<dMutex, dpc, dForce, dDid, dWaited>>
    /\ UNCHANGED <<dBuilt, nonDiscVars>>

\* NewMinecraftController: its findAndUpdatePodInfo succeeds, or it fails
\* and m.lastPodInfoUpdate stays the zero time; the controller is returned
\* to the caller in both cases.
NewMinecraftController ==
    /\ ~dBuilt
    /\ dBuilt' = TRUE
    /\ \E ok \in BOOLEAN :
         sincePodInfoUpdate' = IF ok THEN 0 ELSE sincePodInfoUpdate
    /\ UNCHANGED <<dMutex, dpc, dForce, dDid, dWaited, dTicked>>
    /\ UNCHANGED nonDiscVars

DiscInit ==
    /\ dBuilt = FALSE
    /\ sincePodInfoUpdate = podInfoUpdateInterval
    /\ dMutex = 0
    /\ dpc = [t \in Refreshers |-> "idle"]
    /\ dForce = [t \in Refreshers |-> FALSE]
    /\ dDid = [t \in Refreshers |-> FALSE]
    /\ dWaited = [t \in Refreshers |-> FALSE]
    /\ dTicked = [t \in Refreshers |-> FALSE]

updatePodInfoIfNeeded(t) ==
    \/ \E force \in BOOLEAN : RefreshCall(t, force)
    \/ RefreshLock(t)
    \/ findAndUpdatePodInfo(t)
    \/ RefreshReturn(t)

DiscNext ==
    \/ NewMinecraftController
    \/ \E t \in Refreshers : updatePodInfoIfNeeded(t)
    \/ Tick

(***************************************************************************)
(* CreateCommandExecutor(ExecutorAuto) and the facade ExecuteCommand       *)
(*                                                                         *)
(* One caller; every create function is one step (its refresh, the         *)
(* executor's construction and its Connect()).                             *)
(***************************************************************************)

\* updatePodInfoIfNeeded(false) as this caller sees it: no discovery while
\* the cache is fresh; else findAndUpdatePodInfo, which fails when the API
\* call fails or the selector matches no pod.
RefreshOutcomes ==
    IF fFresh THEN {"skip"}
    ELSE IF fMatch THEN {"ok", "err"}
    ELSE {"err"}

\* findAndUpdatePodInfo sets m.currentPodName and m.lastPodInfoUpdate.
RefreshEffect(r) ==
    IF r = "ok"
    THEN fFresh' = TRUE /\ podNameSet' = TRUE
    ELSE UNCHANGED <<fFresh, podNameSet>>

\* e.podName == "" || e.namespace == "" || e.containerName == "" is false,
\* for an executor built after a refresh with outcome r.
IdentityComplete(r) == idConfigured /\ (podNameSet \/ r = "ok")

\* createAttachExecutor: attachExecutor.Connect() succeeds on a complete
\* identity.
AttachConnectOk(r) == IdentityComplete(r)

\* NewMinecraftController: the configuration is taken as given; the first
\* findAndUpdatePodInfo succeeds or fails, the controller is returned.
FacNewController ==
    /\ ~fBuilt
    /\ fBuilt' = TRUE
    /\ rconPortSet' \in BOOLEAN
    /\ idConfigured' \in BOOLEAN
    /\ fMatch' \in BOOLEAN
    /\ \E ok \in BOOLEAN :
         /\ ok => fMatch'
         /\ fFresh' = ok
         /\ podNameSet' = ok
    /\ UNCHANGED <<fpc, fOp, fLog, fExec, fErr, fConnected, fLink, fComplete>>
    /\ UNCHANGED nonFacVars

\* The update interval elapses.
FacCacheExpires ==
    /\ fBuilt
    /\ fFresh
    /\ fFresh' = FALSE
    /\ UNCHANGED <<fBuilt, rconPortSet, idConfigured, podNameSet, fMatch, fpc,
                   fOp, fLog, fExec, fErr, fConnected, fLink, fComplete>>
    /\ UNCHANGED nonFacVars

\* Pods matching the selector appear or disappear.
FacPodsChange ==
    /\ fBuilt
    /\ fMatch' = ~fMatch
    /\ UNCHANGED <<fBuilt, rconPortSet, idConfigured, podNameSet, fFresh, fpc,
                   fOp, fLog, fExec, fErr, fConnected, fLink, fComplete>>
    /\ UNCHANGED nonFacVars

\* CreateCommandExecutor(ExecutorAuto) is called.
CreateCommandExecutor ==
    /\ fBuilt
    /\ fpc = "idle"
    /\ fOp' = "create"
    /\ fpc' = "rcon"
    /\ UNCHANGED <<fBuilt, rconPortSet, idConfigured, podNameSet, fFresh, fMatch,
                   fLog, fExec, fErr, fConnected, fLink, fComplete>>
    /\ UNCHANGED nonFacVars

\* The facade ExecuteCommand is called: updatePodInfoIfNeeded(false); on its
\* error the operation returns.
FacadeRefresh ==
    /\ fBuilt
    /\ fpc = "idle"
    /\ fOp' = "facade"
    /\ \E r \in RefreshOutcomes :
         /\ RefreshEffect(r)
         /\ IF r = "err"
            THEN fpc' = "ret" /\ fErr' = TRUE
            ELSE fpc' = "rcon" /\ UNCHANGED fErr
    /\ UNCHANGED <<fBuilt, rconPortSet, idConfigured, fMatch, fLog, fExec,
                   fConnected, fLink, fComplete>>
    /\ UNCHANGED nonFacVars

\* createRconExecutor: an unset port is an error; else refresh,
\* newRconExecutor and Connect(), which the server's reachability decides.
createRconExecutor ==
    /\ fpc = "rcon"
    /\ IF ~rconPortSet
       THEN /\ fLog' = Append(fLog, <<"rcon", "noPort">>)
            /\ fpc' = "attach"
            /\ UNCHANGED <<fFresh, podNameSet, fExec, fConnected, fLink>>
       ELSE \E r \in RefreshOutcomes :
              /\ RefreshEffect(r)
              /\ IF r = "err"
                 THEN /\ fLog' = Append(fLog, <<"rcon", "refreshErr">>)
                      /\ fpc' = "attach"
                      /\ UNCHANGED <<fExec, fConnected, fLink>>
                 ELSE \E ok \in BOOLEAN :
                        IF ok
                        THEN /\ fLog' = Append(fLog, <<"rcon", "ok">>)
                             /\ fExec' = "rcon"
                             /\ fConnected' = TRUE
                             /\ fLink' = TRUE
                             /\ fpc' = "created"
                        ELSE /\ fLog' = Append(fLog, <<"rcon", "connectErr">>)
                             /\ fpc' = "attach"
                             /\ UNCHANGED <<fExec, fConnected, fLink>>
    /\ UNCHANGED <<fBuilt, rconPortSet, idConfigured, fMatch, fOp, fErr, fComplete>>
    /\ UNCHANGED nonFacVars

\* createAttachExecutor: refresh, newAttachExecutor and Connect().
createAttachExecutor ==
    /\ fpc = "attach"
    /\ \E r \in RefreshOutcomes :
         /\ RefreshEffect(r)
         /\ IF r = "err"
            THEN /\ fLog' = Append(fLog, <<"attach", "refreshErr">>)
                 /\ fpc' = "exec"
                 /\ UNCHANGED <<fExec, fConnected>>
            ELSE IF AttachConnectOk(r)
            THEN /\ fLog' = Append(fLog, <<"attach", "ok">>)
                 /\ fExec' = "attach"
                 /\ fConnected' = TRUE
                 /\ fpc' = "created"
            ELSE /\ fLog' = Append(fLog, <<"attach", "connectErr">>)
                 /\ fpc' = "exec"
                 /\ UNCHANGED <<fExec, fConnected>>
    /\ UNCHANGED <<fBuilt, rconPortSet, idConfigured, fMatch, fOp, fErr, fLink,
                   fComplete>>
    /\ UNCHANGED nonFacVars

\* createExecExecutor: refresh and newExecExecutor, with no Connect(); its
\* result is what CreateCommandExecutor returns.
createExecExecutor ==
    /\ fpc = "exec"
    /\ \E r \in RefreshOutcomes :
         /\ RefreshEffect(r)
         /\ IF r = "err"
            THEN /\ fLog' = Append(fLog, <<"exec", "refreshErr">>)
                 /\ fErr' = TRUE
                 /\ fpc' = "ret"
                 /\ UNCHANGED <<fExec, fComplete>>
            ELSE /\ fLog' = Append(fLog, <<"exec", "built">>)
                 /\ fExec' = "exec"
                 /\ fComplete' = IdentityComplete(r)
                 /\ fpc' = "created"
                 /\ UNCHANGED fErr
    /\ UNCHANGED <<fBuilt, rconPortSet, idConfigured, fMatch, fOp, fConnected,
                   fLink>>
    /\ UNCHANGED nonFacVars

\* CreateCommandExecutor returns the executor to its caller.
CreateReturn ==
    /\ fpc = "created"
    /\ fOp = "create"
    /\ fpc' = "ret"
    /\ UNCHANGED <<fBuilt, rconPortSet, idConfigured, podNameSet, fFresh, fMatch,
                   fOp, fLog, fExec, fErr, fConnected, fLink, fComplete>>
    /\ UNCHANGED nonFacVars

\* The facade: executor.ExecuteCommand(command). A failed rconExecutor
\* command leaves connected and authenticated false, and e.client as the
\* last Connect() of the retry loop left it: connected or not. The other
\* executors keep no connection.
FacadeExecute ==
    /\ fpc = "created"
    /\ fOp = "facade"
    /\ \E ok \in BOOLEAN :
         /\ fErr' = ~ok
         /\ fLog' = Append(fLog, <<"command", IF ok THEN "ok" ELSE "fail">>)
         /\ IF fExec = "rcon" /\ ~ok
            THEN fConnected' = FALSE /\ fLink' \in BOOLEAN
            ELSE UNCHANGED <<fConnected, fLink>>
    /\ fpc' = "deferred"
    /\ UNCHANGED <<fBuilt, rconPortSet, idConfigured, podNameSet, fFresh, fMatch,
                   fOp, fExec, fComplete>>
    /\ UNCHANGED nonFacVars

\* What Disconnect() does to the client's connection: rconExecutor calls
\* e.client.Disconnect() only when e.connected is set.
LinkAfterDisconnect(kind, flag, link) ==
    IF kind = "rcon" /\ flag THEN FALSE ELSE link

\* The facade's deferred executor.Disconnect(), then the return.
FacadeDisconnect ==
    /\ fpc = "deferred"
    /\ fLink' = LinkAfterDisconnect(fExec, fConnected, fLink)
    /\ fConnected' = FALSE
    /\ fpc' = "ret"
    /\ UNCHANGED <<fBuilt, rconPortSet, idConfigured, podNameSet, fFresh, fMatch,
                   fOp, fLog, fExec, fErr, fComplete>>
    /\ UNCHANGED nonFacVars

\* updatePodInfoIfNeeded(true): the discovery always runs.
ForcedOutcomes == IF fMatch THEN {"ok", "err"} ELSE {"err"}

\* CheckServerStatus is called: updatePodInfoIfNeeded(false); on its error
\* the operation returns.
CheckServerStatus ==
    /\ fBuilt
    /\ fpc = "idle"
    /\ fOp' = "status"
    /\ \E r \in RefreshOutcomes :
         /\ RefreshEffect(r)
         /\ IF r = "err"
            THEN fpc' = "ret" /\ fErr' = TRUE
            ELSE fpc' = "ping" /\ UNCHANGED fErr
    /\ UNCHANGED <<fBuilt, rconPortSet, idConfigured, fMatch, fLog, fExec,
                   fConnected, fLink, fComplete>>
    /\ UNCHANGED nonFacVars

\* FetchLogs is called: updatePodInfoIfNeeded(false); on its error the
\* operation returns.
FetchLogsRefresh ==
    /\ fBuilt
    /\ fpc = "idle"
    /\ fOp' = "logs"
    /\ \E r \in RefreshOutcomes :
         /\ RefreshEffect(r)
         /\ IF r = "err"
            THEN fpc' = "ret" /\ fErr' = TRUE
            ELSE fpc' = "stream" /\ UNCHANGED fErr
    /\ UNCHANGED <<fBuilt, rconPortSet, idConfigured, fMatch, fLog, fExec,
                   fConnected, fLink, fComplete>>
    /\ UNCHANGED nonFacVars

\* The first ping.Ping of CheckServerStatus, or the first req.Stream of
\* getStream: on its failure one updatePodInfoIfNeeded(true); the operation
\* is retried when that refresh succeeded, else the failure is reported.
FirstTry(at, kind, retryAt) ==
    /\ fpc = at
    /\ \E ok \in BOOLEAN :
         IF ok
         THEN /\ fLog' = Append(fLog, <<kind, "ok">>)
              /\ fpc' = "ret"
              /\ UNCHANGED <<fErr, fFresh, podNameSet>>
         ELSE \E f \in ForcedOutcomes :
                /\ fLog' = fLog \o << <<kind, "fail">>, <<"forced", f>> >>
                /\ RefreshEffect(f)
                /\ IF f = "ok"
                   THEN fpc' = retryAt /\ UNCHANGED fErr
                   ELSE fpc' = "ret" /\ fErr' = TRUE
    /\ UNCHANGED <<fBuilt, rconPortSet, idConfigured, fMatch, fOp, fExec,
                   fConnected, fLink, fComplete>>

\* The retry after a successful forced refresh: its failure is reported.
SecondTry(at, kind) ==
    /\ fpc = at
    /\ \E ok \in BOOLEAN :
         /\ fLog' = Append(fLog, <<kind, IF ok THEN "ok" ELSE "fail">>)
         /\ fErr' = ~ok
    /\ fpc' = "ret"
    /\ UNCHANGED <<fBuilt, rconPortSet, idConfigured, podNameSet, fFresh, fMatch,
                   fOp, fExec, fConnected, fLink, fComplete>>

\* CheckServerStatus: ping.Ping and, on its failure, the forced refresh.
StatusPing ==
    /\ FirstTry("ping", "ping", "ping2")
    /\ UNCHANGED nonFacVars

\* CheckServerStatus: ping.Ping after the forced refresh.
StatusPingAgain ==
    /\ SecondTry("ping2", "ping")
    /\ UNCHANGED nonFacVars

\* getStream: req.Stream and, on its failure, the forced refresh.
getStream ==
    /\ FirstTry("stream", "stream", "stream2")
    /\ UNCHANGED nonFacVars

\* getStream: req.Stream after the forced refresh.
getStreamAgain ==
    /\ SecondTry("stream2", "stream")
    /\ UNCHANGED nonFacVars

\* The caller has the result; a created executor is dropped.
FacReturn ==
    /\ fpc = "ret"
    /\ fpc' = "idle"
    /\ fOp' = "none"
    /\ fLog' = <<>>
    /\ fExec' = "none"
    /\ fErr' = FALSE
    /\ fConnected' = FALSE
    /\ fLink' = FALSE
    /\ fComplete' = FALSE
    /\ UNCHANGED <<fBuilt, rconPortSet, idConfigured, podNameSet, fFresh, fMatch>>
    /\ UNCHANGED nonFacVars

FacInit ==
    /\ fBuilt = FALSE
    /\ rconPortSet = FALSE
    /\ idConfigured = FALSE
    /\ podNameSet = FALSE
    /\ fFresh = FALSE
    /\ fMatch = FALSE
    /\ fpc = "idle"
    /\ fOp = "none"
    /\ fLog = <<>>
    /\ fExec = "none"
    /\ fErr = FALSE
    /\ fConnected = FALSE
    /\ fLink = FALSE
    /\ fComplete = FALSE

FacNext ==
    \/ FacNewController
    \/ FacCacheExpires
    \/ FacPodsChange
    \/ CreateCommandExecutor
    \/ FacadeRefresh
    \/ createRconExecutor
    \/ createAttachExecutor
    \/ createExecExecutor
    \/ CreateReturn
    \/ FacadeExecute
    \/ FacadeDisconnect
    \/ CheckServerStatus
    \/ StatusPing
    \/ StatusPingAgain
    \/ FetchLogsRefresh
    \/ getStream
    \/ getStreamAgain
    \/ FacReturn

(***************************************************************************)
(* FetchLogs without a callback: the one-shot read loop                    *)
(*                                                                         *)
(* A stream is a sequence of bytes: "T" stands for a whole RFC3339Nano     *)
(* timestamp, "s" for a space, "a" for any other byte of content and "n"   *)
(* for the line terminator.                                                *)
(***************************************************************************)

\* What a line can contain after its timestamp and the space.
Contents == UNION {[1..k -> {"a", "s"}] : k \in 0..MaxContentLen}

\* strings.IndexByte(line, c): 0-based, -1 when c does not occur.
IndexByte(line, c) ==
    IF \E i \in DOMAIN line : line[i] = c
    THEN (CHOOSE i \in DOMAIN line :
            line[i] = c /\ \A j \in 1..(i - 1) : line[j] # c) - 1
    ELSE -1

\* reader.ReadString('\n'): the bytes up to and including the first
\* terminator; without one, all the remaining bytes and io.EOF.
ReadString(str) ==
    LET i == IndexByte(str, "n")
    IN  IF i >= 0
        THEN [line |-> SubSeq(str, 1, i + 1),
              rest |-> SubSeq(str, i + 2, Len(str)),
              err  |-> "none"]
        ELSE [line |-> str, rest |-> <<>>, err |-> "eof"]

\* strings.TrimRight(line, "\n")
RECURSIVE TrimRight(_)
TrimRight(line) ==
    IF line # <<>> /\ line[Len(line)] = "n"
    THEN TrimRight(SubSeq(line, 1, Len(line) - 1))
    ELSE line

\* time.Parse(time.RFC3339Nano, tsStr) succeeds.
IsTimestamp(tsStr) == tsStr = <<"T">>

\* parseLogLine: the content behind a valid timestamp and the space, else
\* the whole line; the trailing terminator removed.
parseLogLine(line) ==
    LET tsEnd == IndexByte(line, "s")
    IN  IF tsEnd > 0 /\ IsTimestamp(SubSeq(line, 1, tsEnd))
        THEN TrimRight(SubSeq(line, tsEnd + 2, Len(line)))
        ELSE TrimRight(line)

\* The backend writes one more line, with its timestamp; the last line of a
\* stream may lack the terminator.
BackendEmitLine ==
    /\ opc = "emit"
    /\ Len(oExpected) < MaxFetchLines
    /\ IF oStream = <<>> THEN TRUE ELSE oStream[Len(oStream)] = "n"
    /\ \E c \in Contents, terminated \in BOOLEAN :
         /\ oStream' = oStream \o <<"T", "s">> \o c
                               \o (IF terminated THEN <<"n">> ELSE <<>>)
         /\ oExpected' = Append(oExpected, c)
    /\ UNCHANGED <<opc, logEntries>>
    /\ UNCHANGED nonOneVars

\* FetchLogs(options, nil) has its stream, which ends after what was written.
OneShotStart ==
    /\ opc = "emit"
    /\ opc' = "read"
    /\ UNCHANGED <<oStream, oExpected, logEntries>>
    /\ UNCHANGED nonOneVars

\* One pass of the read loop: an error ends the loop before the line is
\* looked at; else a non-empty line is parsed and appended.
OneShotRead ==
    /\ opc = "read"
    /\ LET r == ReadString(oStream)
       IN  IF r.err # "none"
           THEN /\ opc' = "returned"
                /\ oStream' = r.rest
                /\ UNCHANGED logEntries
           ELSE /\ logEntries' = IF r.line # <<>>
                                 THEN Append(logEntries, parseLogLine(r.line))
                                 ELSE logEntries
                /\ oStream' = r.rest
                /\ UNCHANGED opc
    /\ UNCHANGED oExpected
    /\ UNCHANGED nonOneVars

\* The caller has the entries; another query may follow.
OneShotReturn ==
    /\ opc = "returned"
    /\ opc' = "emit"
    /\ oStream' = <<>>
    /\ oExpected' = <<>>
    /\ logEntries' = <<>>
    /\ UNCHANGED nonOneVars

OneInit ==
    /\ opc = "emit"
    /\ oStream = <<>>
    /\ oExpected = <<>>
    /\ logEntries = <<>>

OneNext ==
    \/ BackendEmitLine
    \/ OneShotStart
    \/ OneShotRead
    \/ OneShotReturn

(***************************************************************************)
(* findAndUpdatePodInfo: the selection of the pod                          *)
(***************************************************************************)

\* Status.Phase: Running, Succeeded, and Pending for every other phase.
Phases == {"Running", "Succeeded", "Pending"}

PodRecords == [phase : Phases, start : 1..MaxStart]

\* A comparison that prefers the older start time.
StartsBefore(a, b) == a < b

\* Status.StartTime.Time.After(latestSucceededTime)
StartsAfter(a, b) == a > b

\* The selection loop from item i on: `latest` is the index of
\* latestSucceededPod (0: nil). The result is the index of selectedPod
\* after the two fallbacks behind the loop.
RECURSIVE SelectLoop(_, _, _)
SelectLoop(items, i, latest) ==
    IF i > Len(items)
    THEN IF latest # 0 THEN latest ELSE 1
    ELSE IF items[i].phase = "Running"
    THEN i
    ELSE IF /\ items[i].phase = "Succeeded"
            /\ IF latest = 0 THEN TRUE
               ELSE StartsAfter(items[i].start, items[latest].start)
    THEN SelectLoop(items, i + 1, i)
    ELSE SelectLoop(items, i + 1, latest)

\* A pod matching the selector appears somewhere in the listing.
PodAppears ==
    /\ Len(podItems) < MaxPods
    /\ \E r \in PodRecords, k \in 0..Len(podItems) :
         podItems' = SubSeq(podItems, 1, k) \o <<r>>
                       \o SubSeq(podItems, k + 1, Len(podItems))
    /\ UNCHANGED <<selectedPod, listFailed, findErr>>
    /\ UNCHANGED nonSelVars

\* A pod is deleted.
PodVanishes ==
    /\ \E k \in DOMAIN podItems :
         podItems' = SubSeq(podItems, 1, k - 1)
                       \o SubSeq(podItems, k + 1, Len(podItems))
    /\ UNCHANGED <<selectedPod, listFailed, findErr>>
    /\ UNCHANGED nonSelVars

\* A pod changes its phase.
PodPhaseChanges ==
    /\ \E k \in DOMAIN podItems, ph \in Phases :
         /\ ph # podItems[k].phase
         /\ podItems' = [podItems EXCEPT ![k].phase = ph]
    /\ UNCHANGED <<selectedPod, listFailed, findErr>>
    /\ UNCHANGED nonSelVars

\* findAndUpdatePodInfo up to m.currentPodName = selectedPod.Name: the List
\* call, the check for an empty listing, the selection.
SelectPod ==
    /\ \E ok \in BOOLEAN :
         /\ listFailed' = ~ok
         /\ IF ~ok \/ Len(podItems) = 0
            THEN /\ findErr' = TRUE
                 /\ UNCHANGED selectedPod
            ELSE /\ findErr' = FALSE
                 /\ selectedPod' = SelectLoop(podItems, 1, 0)
    /\ UNCHANGED podItems
    /\ UNCHANGED nonSelVars

SelInit ==
    /\ podItems = <<>>
    /\ selectedPod = 0
    /\ listFailed = FALSE
    /\ findErr = FALSE

SelNext ==
    \/ PodAppears
    \/ PodVanishes
    \/ PodPhaseChanges
    \/ SelectPod

(***************************************************************************)
(* The identity an executor works with                                     *)
(***************************************************************************)

IdSessions == 1..NumSessions

Instances == 1..NumInstances

ExecutorTypes == {"rcon", "attach", "exec"}

\* findAndUpdatePodInfo selects another instance: m.currentPodName and
\* m.serverIP change.
IdRebind ==
    /\ \E p \in Instances \ {currentPodName} : currentPodName' = p
    /\ UNCHANGED <<exType, exPodName, addressed>>
    /\ UNCHANGED nonIdVars

\* newRconExecutor(m.serverIP, ...), newAttachExecutor(..., m.currentPodName,
\* ...), newExecExecutor(..., m.currentPodName, ...): the executor of a new
\* session copies the identity; the rcon and the attach executor connect
\* at once.
IdCreateSession(s, t) ==
    /\ exType[s] = "none"
    /\ exType' = [exType EXCEPT ![s] = t]
    /\ exPodName' = [exPodName EXCEPT ![s] = currentPodName]
    /\ addressed' = [addressed EXCEPT ![s] =
                       IF t = "exec" THEN 0 ELSE currentPodName]
    /\ UNCHANGED currentPodName
    /\ UNCHANGED nonIdVars

\* CommandSession.ExecuteCommand: s.executor.ExecuteCommand(command), sent
\* over the client of e.serverIP or to the pod Name(e.podName).
IdSessionCommand(s) ==
    /\ exType[s] # "none"
    /\ addressed' = [addressed EXCEPT ![s] = exPodName[s]]
    /\ UNCHANGED <<currentPodName, exType, exPodName>>
    /\ UNCHANGED nonIdVars

\* rconExecutor.Connect on a retry: rcon.NewClient(e.serverIP, e.port).
IdSessionReconnect(s) ==
    /\ exType[s] = "rcon"
    /\ addressed' = [addressed EXCEPT ![s] = exPodName[s]]
    /\ UNCHANGED <<currentPodName, exType, exPodName>>
    /\ UNCHANGED nonIdVars

\* CommandSession.Close
IdSessionClose(s) ==
    /\ exType[s] # "none"
    /\ exType' = [exType EXCEPT ![s] = "none"]
    /\ exPodName' = [exPodName EXCEPT ![s] = 0]
    /\ addressed' = [addressed EXCEPT ![s] = 0]
    /\ UNCHANGED currentPodName
    /\ UNCHANGED nonIdVars

IdInit ==
    /\ currentPodName = 1
    /\ exType = [s \in IdSessions |-> "none"]
    /\ exPodName = [s \in IdSessions |-> 0]
    /\ addressed = [s \in IdSessions |-> 0]

IdNext ==
    \/ IdRebind
    \/ \E s \in IdSessions, t \in ExecutorTypes : IdCreateSession(s, t)
    \/ \E s \in IdSessions : IdSessionCommand(s)
    \/ \E s \in IdSessions : IdSessionReconnect(s)
    \/ \E s \in IdSessions : IdSessionClose(s)

(***************************************************************************)
(* The identity fields: findAndUpdatePodInfo writes them one by one under  *)
(* podInfoUpdateMutex; CheckServerStatus, getStream and the create         *)
(* functions read them without it.                                         *)
(***************************************************************************)

Readers == 1..NumReaders

\* findAndUpdatePodInfo has selected a pod (one refresh at a time:
\* podInfoUpdateMutex).
UpdateSelect ==
    /\ upc = "idle"
    /\ \E p \in Instances : uSelected' = p
    /\ upc' = "name"
    /\ UNCHANGED <<mPodName, mServerIP, mPodStatus, obsPc, obsName, obsIP,
                   obsStatus>>
    /\ UNCHANGED nonFldVars

\* m.currentPodName = selectedPod.Name
UpdatePodName ==
    /\ upc = "name"
    /\ mPodName' = uSelected
    /\ upc' = "ip"
    /\ UNCHANGED <<mServerIP, mPodStatus, uSelected, obsPc, obsName, obsIP,
                   obsStatus>>
    /\ UNCHANGED nonFldVars

\* m.serverIP = selectedPod.Status.PodIP
UpdateServerIP ==
    /\ upc = "ip"
    /\ mServerIP' = uSelected
    /\ upc' = "status"
    /\ UNCHANGED <<mPodName, mPodStatus, uSelected, obsPc, obsName, obsIP,
                   obsStatus>>
    /\ UNCHANGED nonFldVars

\* m.status.PodStatus = string(selectedPod.Status.Phase), and the rest of
\* the refresh.
UpdatePodStatus ==
    /\ upc = "status"
    /\ mPodStatus' = uSelected
    /\ upc' = "idle"
    /\ UNCHANGED <<mPodName, mServerIP, uSelected, obsPc, obsName, obsIP,
                   obsStatus>>
    /\ UNCHANGED nonFldVars

\* A component starts to use the identity: updatePodInfoIfNeeded(false)
\* has returned on its fast path, without the mutex.
ReadStart(r) ==
    /\ obsPc[r] = "idle"
    /\ obsPc' = [obsPc EXCEPT ![r] = "name"]
    /\ obsName' = [obsName EXCEPT ![r] = 0]
    /\ obsIP' = [obsIP EXCEPT ![r] = 0]
    /\ obsStatus' = [obsStatus EXCEPT ![r] = 0]
    /\ UNCHANGED <<mPodName, mServerIP, mPodStatus, upc, uSelected>>
    /\ UNCHANGED nonFldVars

\* The read of m.currentPodName (GetLogs(m.currentPodName, ...),
\* newAttachExecutor(..., m.currentPodName, ...)).
ReadPodName(r) ==
    /\ obsPc[r] = "name"
    /\ obsName' = [obsName EXCEPT ![r] = mPodName]
    /\ obsPc' = [obsPc EXCEPT ![r] = "ip"]
    /\ UNCHANGED <<mPodName, mServerIP, mPodStatus, upc, uSelected, obsIP,
                   obsStatus>>
    /\ UNCHANGED nonFldVars

\* The read of m.serverIP (ping.Ping(m.serverIP, ...),
\* newRconExecutor(m.serverIP, ...)).
ReadServerIP(r) ==
    /\ obsPc[r] = "ip"
    /\ obsIP' = [obsIP EXCEPT ![r] = mServerIP]
    /\ obsPc' = [obsPc EXCEPT ![r] = "status"]
    /\ UNCHANGED <<mPodName, mServerIP, mPodStatus, upc, uSelected, obsName,
                   obsStatus>>
    /\ UNCHANGED nonFldVars

\* The read of m.status.PodStatus through the pointer CheckServerStatus
\* returns.
ReadPodStatus(r) ==
    /\ obsPc[r] = "status"
    /\ obsStatus' = [obsStatus EXCEPT ![r] = mPodStatus]
    /\ obsPc' = [obsPc EXCEPT ![r] = "done"]
    /\ UNCHANGED <<mPodName, mServerIP, mPodStatus, upc, uSelected, obsName,
                   obsIP>>
    /\ UNCHANGED nonFldVars

\* The reader is done with what it read.
ReadReturn(r) ==
    /\ obsPc[r] = "done"
    /\ obsPc' = [obsPc EXCEPT ![r] = "idle"]
    /\ UNCHANGED <<mPodName, mServerIP, mPodStatus, upc, uSelected, obsName,
                   obsIP, obsStatus>>
    /\ UNCHANGED nonFldVars

\* After NewMinecraftController, whose findAndUpdatePodInfo ran before any
\* reader existed.
FldInit ==
    /\ mPodName = 1
    /\ mServerIP = 1
    /\ mPodStatus = 1
    /\ upc = "idle"
    /\ uSelected = 1
    /\ obsPc = [r \in Readers |-> "idle"]
    /\ obsName = [r \in Readers |-> 0]
    /\ obsIP = [r \in Readers |-> 0]
    /\ obsStatus = [r \in Readers |-> 0]

FldNext ==
    \/ UpdateSelect
    \/ UpdatePodName
    \/ UpdateServerIP
    \/ UpdatePodStatus
    \/ \E r \in Readers : ReadStart(r)
    \/ \E r \in Readers : ReadPodName(r)
    \/ \E r \in Readers : ReadServerIP(r)
    \/ \E r \in Readers : ReadPodStatus(r)
    \/ \E r \in Readers : ReadReturn(r)

(***************************************************************************)
(* websocket Manager: the run loop                                         *)
(*                                                                         *)
(* register, unregister and broadcast are unbuffered channels the run loop *)
(* alone receives from; every client has a room, so the room table holds   *)
(* the clients of m.clients and changes with it.                           *)
(***************************************************************************)

WsClients == 1..NumWsClients

\* case client := <-m.register
RunRegister(c) ==
    /\ wspc = "select"
    /\ c \in wsFresh
    /\ wsFresh' = wsFresh \ {c}
    /\ wsCur' = c
    /\ wspc' = "regLock"
    /\ UNCHANGED <<wsClients, wsClosed, wsSend, wsRLocked, wsToSend>>
    /\ UNCHANGED nonWsVars

\* case client := <-m.unregister, up to m.mutex.Lock(): a client already
\* closed is skipped.
RunUnregister(c) ==
    /\ wspc = "select"
    /\ c \notin wsFresh
    /\ IF wsClosed[c]
       THEN UNCHANGED <<wsClosed, wsCur, wspc>>
       ELSE /\ wsClosed' = [wsClosed EXCEPT ![c] = TRUE]
            /\ wsCur' = c
            /\ wspc' = "unregLock"
    /\ UNCHANGED <<wsFresh, wsClients, wsSend, wsRLocked, wsToSend>>
    /\ UNCHANGED nonWsVars

\* m.mutex.Lock() of the run loop, granted when no reader holds the mutex,
\* with the critical section behind it: the insertion of the register
\* case, the deletion of the unregister case (and close(client.Send)), the
\* deletion in sendMessage, from which the broadcast goes on.
RunLock ==
    /\ wspc \in {"regLock", "unregLock", "dropLock"}
    /\ ~wsRLocked
    /\ wsClients' = IF wspc = "regLock" THEN wsClients \cup {wsCur}
                    ELSE wsClients \ {wsCur}
    /\ wsSend' = IF wspc = "regLock" THEN wsSend
                 ELSE [wsSend EXCEPT ![wsCur] = 0]
    /\ wspc' = IF wspc = "dropLock" THEN "bcast" ELSE "select"
    /\ wsCur' = 0
    /\ UNCHANGED <<wsFresh, wsClosed, wsRLocked, wsToSend>>
    /\ UNCHANGED nonWsVars

\* case message := <-m.broadcast: m.mutex.RLock() and the start of the
\* iteration over the clients.
RunBroadcast ==
    /\ wspc = "select"
    /\ wsRLocked' = TRUE
    /\ wsToSend' = wsClients
    /\ wspc' = "bcast"
    /\ UNCHANGED <<wsFresh, wsClients, wsClosed, wsSend, wsCur>>
    /\ UNCHANGED nonWsVars

\* m.sendMessage(client, message) for the next client of the iteration,
\* up to its m.mutex.Lock(): a closed client is skipped; the message is
\* queued when client.Send has room; else client.Send is closed and the
\* client is to be deleted.
RunSend ==
    /\ wspc = "bcast"
    /\ \E c \in wsToSend :
         /\ wsToSend' = wsToSend \ {c}
         /\ IF wsClosed[c]
            THEN UNCHANGED <<wsClosed, wsSend, wsCur, wspc>>
            ELSE IF wsSend[c] < SendCap
            THEN /\ wsSend' = [wsSend EXCEPT ![c] = wsSend[c] + 1]
                 /\ UNCHANGED <<wsClosed, wsCur, wspc>>
            ELSE /\ wsClosed' = [wsClosed EXCEPT ![c] = TRUE]
                 /\ wsCur' = c
                 /\ wspc' = "dropLock"
                 /\ UNCHANGED wsSend
    /\ UNCHANGED <<wsFresh, wsClients, wsRLocked>>
    /\ UNCHANGED nonWsVars

\* The iteration is over: m.mutex.RUnlock().
RunBroadcastEnd ==
    /\ wspc = "bcast"
    /\ wsToSend = {}
    /\ wsRLocked' = FALSE
    /\ wspc' = "select"
    /\ UNCHANGED <<wsFresh, wsClients, wsClosed, wsSend, wsCur, wsToSend>>
    /\ UNCHANGED nonWsVars

\* writePump takes a message from c.Send.
WritePumpReceive(c) ==
    /\ wsSend[c] > 0
    /\ wsSend' = [wsSend EXCEPT ![c] = wsSend[c] - 1]
    /\ UNCHANGED <<wsFresh, wsClients, wsClosed, wsRLocked, wspc, wsCur,
                   wsToSend>>
    /\ UNCHANGED nonWsVars

\* checkHeartbeats: m.mutex.Lock(), the clients whose last ping is too old
\* are closed and deleted, m.mutex.Unlock().
checkHeartbeats ==
    /\ ~wsRLocked
    /\ \E late \in SUBSET wsClients :
         /\ late # {}
         /\ wsClosed' = [c \in WsClients |-> wsClosed[c] \/ c \in late]
         /\ wsSend' = [c \in WsClients |-> IF c \in late THEN 0 ELSE wsSend[c]]
         /\ wsClients' = wsClients \ late
    /\ UNCHANGED <<wsFresh, wsRLocked, wspc, wsCur, wsToSend>>
    /\ UNCHANGED nonWsVars

WsInit ==
    /\ wsFresh = WsClients
    /\ wsClients = {}
    /\ wsClosed = [c \in WsClients |-> FALSE]
    /\ wsSend = [c \in WsClients |-> 0]
    /\ wsRLocked = FALSE
    /\ wspc = "select"
    /\ wsCur = 0
    /\ wsToSend = {}

WsNext ==
    \/ \E c \in WsClients : RunRegister(c)
    \/ \E c \in WsClients : RunUnregister(c)
    \/ RunLock
    \/ RunBroadcast
    \/ RunSend
    \/ RunBroadcastEnd
    \/ \E c \in WsClients : WritePumpReceive(c)
    \/ checkHeartbeats

(***************************************************************************)
(* SSE Broker: the listen loop                                             *)
(*                                                                         *)
(* newClients, closingClients and messages are unbuffered channels the     *)
(* listen loop alone receives from, in its select. Every client has a      *)
(* topic, so the topic table holds the clients of b.clients.               *)
(***************************************************************************)

SseClients == 1..NumSseClients

\* case client := <-b.newClients, sent by ServeHTTP.
ListenConnect(c) ==
    /\ lpc = "select"
    /\ hpc[c] = "fresh"
    /\ hpc' = [hpc EXCEPT ![c] = "welcome"]
    /\ sseClients' = sseClients \cup {c}
    /\ UNCHANGED <<sseChannel, sseRLocked, lpc, sseCur, sseToSend>>
    /\ UNCHANGED nonSseVars

\* ServeHTTP: b.sendMessageToClient(client, connectionMsg); on a full
\* channel the handler sends the id to closingClients.
HandlerWelcome(c) ==
    /\ hpc[c] = "welcome"
    /\ IF sseChannel[c] < ChannelCap
       THEN /\ sseChannel' = [sseChannel EXCEPT ![c] = sseChannel[c] + 1]
            /\ hpc' = [hpc EXCEPT ![c] = "stream"]
       ELSE /\ hpc' = [hpc EXCEPT ![c] = "closing"]
            /\ UNCHANGED sseChannel
    /\ UNCHANGED <<sseClients, sseRLocked, lpc, sseCur, sseToSend>>
    /\ UNCHANGED nonSseVars

\* c.Stream: msg, ok := <-client.Channel
StreamReceive(c) ==
    /\ hpc[c] = "stream"
    /\ sseChannel[c] > 0
    /\ sseChannel' = [sseChannel EXCEPT ![c] = sseChannel[c] - 1]
    /\ UNCHANGED <<hpc, sseClients, sseRLocked, lpc, sseCur, sseToSend>>
    /\ UNCHANGED nonSseVars

\* The connection is gone: the CloseNotify goroutine sends the id to
\* closingClients.
ClientGone(c) ==
    /\ hpc[c] = "stream"
    /\ hpc' = [hpc EXCEPT ![c] = "closing"]
    /\ UNCHANGED <<sseClients, sseChannel, sseRLocked, lpc, sseCur, sseToSend>>
    /\ UNCHANGED nonSseVars

\* case clientID := <-b.closingClients: the select of the listen loop
\* takes the id from a sender, a goroutine of the client's handler or the
\* listen loop in sendMessageToClient; a client found in b.clients is
\* removed and its channel closed. A sender continues behind its send.
ListenClose(c) ==
    /\ lpc = "select"
    /\ \/ hpc[c] = "closing"
       \/ lpc = "sending" /\ sseCur = c
    /\ sseClients' = sseClients \ {c}
    /\ sseChannel' = [sseChannel EXCEPT ![c] = 0]
    /\ hpc' = [hpc EXCEPT ![c] = "gone"]
    /\ lpc' = IF lpc = "sending" THEN "publish" ELSE "select"
    /\ sseCur' = 0
    /\ UNCHANGED <<sseRLocked, sseToSend>>
    /\ UNCHANGED nonSseVars

\* case message := <-b.messages: b.mutex.RLock() and the start of the
\* iteration over the clients.
ListenPublish ==
    /\ lpc = "select"
    /\ sseRLocked' = TRUE
    /\ sseToSend' = sseClients
    /\ lpc' = "publish"
    /\ UNCHANGED <<hpc, sseClients, sseChannel, sseCur>>
    /\ UNCHANGED nonSseVars

\* b.sendMessageToClient(client, message) for the next client of the
\* iteration: the message is queued when client.Channel has room; else
\* the loop sends the id to closingClients.
ListenSend ==
    /\ lpc = "publish"
    /\ \E c \in sseToSend :
         /\ sseToSend' = sseToSend \ {c}
         /\ IF sseChannel[c] < ChannelCap
            THEN /\ sseChannel' = [sseChannel EXCEPT ![c] = sseChannel[c] + 1]
                 /\ UNCHANGED <<lpc, sseCur>>
            ELSE /\ lpc' = "sending"
                 /\ sseCur' = c
                 /\ UNCHANGED sseChannel
    /\ UNCHANGED <<hpc, sseClients, sseRLocked>>
    /\ UNCHANGED nonSseVars

\* The iteration is over: b.mutex.RUnlock().
ListenPublishEnd ==
    /\ lpc = "publish"
    /\ sseToSend = {}
    /\ sseRLocked' = FALSE
    /\ lpc' = "select"
    /\ UNCHANGED <<hpc, sseClients, sseChannel, sseCur, sseToSend>>
    /\ UNCHANGED nonSseVars

SseInit ==
    /\ hpc = [c \in SseClients |-> "fresh"]
    /\ sseClients = {}
    /\ sseChannel = [c \in SseClients |-> 0]
    /\ sseRLocked = FALSE
    /\ lpc = "select"
    /\ sseCur = 0
    /\ sseToSend = {}

\* Broker.listen
listen ==
    \/ \E c \in SseClients : ListenConnect(c)
    \/ \E c \in SseClients : ListenClose(c)
    \/ ListenPublish
    \/ ListenSend
    \/ ListenPublishEnd

SseNext ==
    \/ listen
    \/ \E c \in SseClients : HandlerWelcome(c)
    \/ \E c \in SseClients : StreamReceive(c)
    \/ \E c \in SseClients : ClientGone(c)

(***************************************************************************)
(* Specifications                                                          *)
(***************************************************************************)
LogInit ==
    /\ nProduced = 0
    /\ pc = "check"
    /\ buffer = <<>>
    /\ lastLogTimestamp = 0
    /\ retryCount = 0
    /\ latestTimestamp = 0
    /\ readerPos = 1
    /\ readerClosed = FALSE
    /\ readerInitial = TRUE
    /\ streamNil = FALSE
    /\ fetchReturned = FALSE
    /\ ctxDone = FALSE
    /\ stopSignal = FALSE
    /\ untilPassed = FALSE
    /\ delivered = [l \in Lines |-> 0]
    /\ caughtUp = FALSE
    /\ openStreams = 1
    /\ refreshFailed = FALSE
    /\ currentDelay = 0

LogNext ==
    \/ Produce
    \/ FetchLogsReturn
    \/ CancelCtx
    \/ SendStop
    \/ UntilElapses
    \/ FollowCheck
    \/ FollowReadAny
    \/ FollowBackoff
    \/ FollowCatchUp
    \/ FollowReopen

Init ==
    /\ LogInit /\ RconInit /\ SessInit /\ DiscInit /\ FacInit /\ OneInit
    /\ SelInit /\ IdInit /\ FldInit /\ WsInit /\ SseInit

LogSpec == Init /\ [][LogNext]_vars

\* A read that returns a line, the end of the stream or a connection
\* reset: the failures a stream of a terminated source shows.
FollowReadOrEnd ==
    \E gotLine \in BOOLEAN, err \in {"none", "eof", "reset"}, elapsed \in BOOLEAN :
        /\ FollowRead(gotLine, err, elapsed)
        /\ TRUE

\* tryReconnect gets its follow stream.
FollowReopenSucceeds ==
    /\ FollowReopen
    /\ ~streamNil'

\* The follow task with no end time, stop signal or cancellation, on a
\* backend whose streams end or break and can always be reopened.
EndingStreamsNext ==
    \/ Produce
    \/ FetchLogsReturn
    \/ FollowCheck
    \/ FollowReadOrEnd
    \/ FollowBackoff
    \/ FollowCatchUp
    \/ FollowReopenSucceeds

EndingStreamsSpec == Init /\ [][EndingStreamsNext]_vars

RconSpec == Init /\ [][RconNext]_vars

RconSeqSpec == Init /\ [][RconSeqNext]_vars

\* One caller uses the executor while the controller's lifecycle may be
\* cancelled (MinecraftController.Close).
RconCancelNext == CancelCtx \/ RconSeqNext

RconCancelSpec == Init /\ [][RconCancelNext]_vars

SessSpec == Init /\ [][SessNext]_vars

\* One client uses the sessions while MinecraftController.Close, which is
\* m.cancelFunc() and nothing else, may be called.
SessCloseNext ==
    \/ CancelCtx
    \/ ClientStep(1)
    \/ \E s \in Sessions : SessionAges(s)
    \/ cleanupIdleSessions

SessCloseSpec == Init /\ [][SessCloseNext]_vars

DiscSpec == Init /\ [][DiscNext]_vars

FacSpec == Init /\ [][FacNext]_vars

OneSpec == Init /\ [][OneNext]_vars

SelSpec == Init /\ [][SelNext]_vars

IdSpec == Init /\ [][IdNext]_vars

FldSpec == Init /\ [][FldNext]_vars

WsSpec == Init /\ [][WsNext]_vars

\* The listen loop runs whenever it can take a step.
SseFairSpec == Init /\ [][SseNext]_vars /\ WF_vars(listen)

Next ==
    \/ LogNext \/ RconNext \/ SessNext \/ DiscNext \/ FacNext \/ OneNext
    \/ SelNext \/ IdNext \/ FldNext \/ WsNext \/ SseNext

Spec == Init /\ [][Next]_vars

\* The goroutine is scheduled and its reads return; a stream that has a line
\* to give is not cut before giving it every time.
LogFairSpec == LogSpec /\ WF_vars(FollowTask) /\ SF_vars(FollowReadLine)

(***************************************************************************)
(* Follow task: claims                                                     *)
(***************************************************************************)

\* How often line l sits in the buffer, waiting to be passed to the callback.
InBuffer(l) == Cardinality({i \in DOMAIN buffer : buffer[i] = l})

TaskEnded == pc \in {"done", "panic"}

C3_SuccessWithinRetries ==
    \A t \in Callers :
        (rpc[t] = "ret" /\ ~rRejected[t] /\ rFails[t] <= RconMaxRetries /\ netUp)
            => rResult[t] = "ok"

\* C4: once the server has rejected the password during a call, in the
\* initial connect or in a reconnect of the retry loop, the call is on its
\* way out with the authentication error and attempts nothing further.
C4_AuthRejectionTerminal ==
    \A t \in Callers :
        rRejected[t] => /\ rpc[t] \in {"relockErr", "ret"}
                        /\ rResult[t] = "authErr"

\* Caller t is between the first Command() of its retry loop and its return.
InRetrySequence(t) == rpc[t] \in {"cmd", "sleep", "relockRetry"}

\* C6: while one caller's retry sequence is in progress, no other caller
\* holds the session's mutex, that is, runs a command, a connect or a
\* disconnect on the session.
C6_RetrySequenceExclusive ==
    \A a \in Callers : \A b \in Callers \ {a} :
        InRetrySequence(a) => /\ rMutex # b
                              /\ ~InRetrySequence(b)

(***************************************************************************)
(* CommandSession and sessionManager: claims                               *)
(***************************************************************************)

\* The threads inside the executor of session s: executing a command or
\* disconnecting it.
InExecutor(s) ==
    {c \in Clients : cpc[c] \in {"inExec", "inDisc"} /\ cTarget[c] = s}
        \cup (IF spc = "inDisc" /\ sCur = s THEN {Sweeper} ELSE {})

\* C5: whatever the interleaving of handle executes, executeOn, close,
\* closeAll, handle closes and the sweep, at most one thread at a time is
\* inside a session's executor.
C5_OneCallerInExecutor == \A s \in Sessions : Cardinality(InExecutor(s)) <= 1

\* One client executes on a session while another client waits for the
\* session's mutex to execute and the sweep waits for it to close the session.
C5_Witness ==
    \E s \in Sessions : \E c \in Clients : \E d \in Clients \ {c} :
        /\ cpc[c] = "inExec" /\ cTarget[c] = s
        /\ cpc[d] = "execLock" /\ cTarget[d] = s
        /\ spc = "closeLock" /\ sCur = s

\* C9: a session the sweep's scan found idle is still waiting for the
\* running sweep to remove it, or it is out of the registry and that sweep
\* has disconnected it or is disconnecting it.
C9_IdleRemovedBySweep ==
    \A s \in sFound :
        \/ s \in idleSessions /\ spc \in {"scan", "remove", "closeLock", "inDisc", "relock"}
        \/ /\ s \notin registry
           /\ \/ s \in sSwept
              \/ sCur = s /\ spc \in {"closeLock", "inDisc"}

\* C10: once a Close() has disconnected a session, no operation is inside
\* its executor executing a command.
C10_ClosedIsTerminal ==
    \A s \in Sessions : sClosed[s] =>
        \A c \in Clients : ~(cpc[c] = "inExec" /\ cTarget[c] = s)

(***************************************************************************)
(* Discovery Cache: claims                                                 *)
(***************************************************************************)

\* C7: at most one thread at a time is executing findAndUpdatePodInfo,
\* whatever mix of forced and unforced refreshes is in progress.
C7_SingleFlight == Cardinality({t \in Refreshers : dpc[t] = "disc"}) <= 1

\* One thread is in findAndUpdatePodInfo while a forced and an unforced
\* refresh wait for the mutex.
C7_Witness ==
    \E t \in Refreshers : \E u \in Refreshers : \E v \in Refreshers :
        /\ dpc[t] = "disc"
        /\ dpc[u] = "lock" /\ dForce[u]
        /\ dpc[v] = "lock" /\ ~dForce[v]

\* C8: an updatePodInfoIfNeeded(false) call that waited for the mutex while
\* another thread was in findAndUpdatePodInfo performs no discovery of its
\* own (as long as no time has passed since the call began): concurrent
\* unforced calls produce one discovery.
C8_OneDiscoveryPerBurst ==
    \A t \in Refreshers :
        (~dForce[t] /\ dWaited[t] /\ ~dTicked[t]) => ~dDid[t]

(***************************************************************************)
(* Follow task: termination claims                                         *)
(***************************************************************************)

\* C14: a follow task that ended after a failed reconnect attempt, with no
\* cancellation, stop signal or end time, has made all LogMaxRetries
\* attempts before its final error callback.
C14_AllAttemptsMade ==
    (TaskEnded /\ streamNil /\ ~ctxDone /\ ~stopSignal /\ ~untilPassed)
    => (pc = "done" /\ retryCount >= LogMaxRetries)

\* C15: when the follow task has ended, whatever the exit, no line it read
\* is still in the buffer: every line read went to the data callback.
C15_NoBufferedLineAtExit == TaskEnded => buffer = <<>>

\* The task ended on a read that returned a line together with a fatal
\* error, and the line was delivered.
C15_Witness ==
    /\ pc = "done"
    /\ ~ctxDone /\ ~stopSignal /\ ~untilPassed
    /\ ~streamNil
    /\ nProduced = 1
    /\ delivered[1] = 1

\* C16: once the lifecycle is cancelled, the command retry loop of the
\* rconExecutor starts no further retry: it does not sleep and reconnect
\* again.
C16_NoRetryAfterCancel == [][ctxDone => ~ExecReconnect(1)]_vars

\* C17: when the follow task has ended, whatever the exit, every stream
\* opened for it (initial, catch-up, reopened) has been closed.
C17_StreamsClosedAtExit == TaskEnded => openStreams = 0

\* The task ended while reading from a stream it had reopened.
C17_Witness ==
    /\ pc = "done"
    /\ ~readerInitial
    /\ ~streamNil
    /\ openStreams = 0

\* C18: a one-shot FetchLogs on a stream of n timestamped lines returns
\* exactly the n contents, in order, whether or not the last line ends
\* with a terminator.
C18_OneShotReturnsEveryLine == opc = "returned" => logEntries = oExpected

\* C19: after a refresh that returned a discovery error, the follow
\* task's reconnect issues no log query: tryReconnect does not go on to
\* reopen the stream.
C19_NoQueryAfterFailedRefresh == [][refreshFailed => ~FollowReopen]_vars

\* C20: when Close returns, the lifecycle is cancelled and no session
\* registered with the sessionManager at that moment holds a connected
\* executor.
C20_ShutdownDisconnectsSessions ==
    [][CancelCtx => (ctxDone' /\ \A s \in registry' : ~exConnected'[s])]_vars

(***************************************************************************)
(* Executor creation and the facade: claims                                *)
(***************************************************************************)

\* The outcomes logged for create function k during the current call.
OutcomesOf(k) == {fLog[i][2] : i \in {j \in DOMAIN fLog : fLog[j][1] = k}}

\* IsConnected() of the returned executor: the connected flag, or for an
\* execExecutor the completeness of its identity fields.
ExecutorWorking ==
    IF fExec = "exec" THEN fComplete ELSE fExec # "none" /\ fConnected

\* C11: when the RCON port is unset and the attach executor failed to
\* connect, the one-shot executor that CreateCommandExecutor(Auto) returns
\* without error is working: its identity fields are complete.
C11_OneShotFallbackWorks ==
    ( /\ fpc = "ret"
      /\ fOp = "create"
      /\ ~rconPortSet
      /\ "connectErr" \in OutcomesOf("attach")
      /\ fExec = "exec" )
    => (~fErr /\ ExecutorWorking)

\* C12: the create functions are called in the order rcon, attach, exec,
\* each after every earlier one failed, and the executor returned is the
\* first of them that connected: it is connected.
C12_FirstConnectedInOrder ==
    /\ fOp = "create" =>
         \A i \in DOMAIN fLog :
            /\ fLog[i][1] = <<"rcon", "attach", "exec">>[i]
            /\ i < Len(fLog) => fLog[i][2] \in {"noPort", "refreshErr", "connectErr"}
    /\ (fpc \in {"created", "ret"} /\ fOp = "create" /\ fExec # "none")
         => ExecutorWorking

\* C13: when the facade ExecuteCommand returns after it obtained an
\* executor, that executor holds no connection: its flag is cleared and
\* its client's connection is closed.
C13_FacadeReleasesExecutor ==
    (fpc = "ret" /\ fOp = "facade" /\ fExec # "none")
    => (~fConnected /\ ~fLink)

(***************************************************************************)
(* rconExecutor: attempts and states                                       *)
(***************************************************************************)

\* C22, as stated: one ExecuteCommand call invokes client.Command at most
\* maxRetries (5) times.
C22_AtMostMaxRetriesAttempts ==
    \A t \in Callers : rAttempts[t] <= RconMaxRetries

\* C22, amended: one ExecuteCommand call invokes client.Command at most
\* maxRetries + 1 times, a first attempt and at most maxRetries retries, and
\* a call that fails with the command-execution error has made them all.
C22_AtMostMaxRetriesPlusOneAttempts ==
    \A t \in Callers :
        /\ rAttempts[t] <= RconMaxRetries + 1
        /\ (rpc[t] = "ret" /\ rResult[t] = "cmdErr")
              => (rAttempts[t] = RconMaxRetries + 1 /\ rRetry[t] = RconMaxRetries)

\* A call has failed with the command-execution error after its last retry.
C22_Witness ==
    /\ rpc[1] = "ret"
    /\ rResult[1] = "cmdErr"
    /\ rAttempts[1] = RconMaxRetries + 1

\* C30: the executor never rests connected but unauthenticated; Connect()
\* on a connected and authenticated executor changes neither the flags nor
\* the client; a failed command and a failed initial connect leave both
\* flags cleared.
C30_DisconnectedOnFailure ==
    /\ [](connected = authenticated)
    /\ [][\A t \in Callers :
            /\ ( /\ connected /\ authenticated
                 /\ RconConnect(t) \/ ExecInitConnect(t) \/ ExecReconnect(t) )
               => UNCHANGED <<connected, authenticated, clientUp>>
            /\ (ExecCommand(t) /\ rResult'[t] # "ok")
               => (~connected' /\ ~authenticated')
            /\ (ExecInitConnect(t) /\ rpc'[t] = "relockErr")
               => (~connected' /\ ~authenticated')]_vars

\* The server has rejected the password in the initial connect of a call.
C30_Witness ==
    /\ rpc[1] = "relockErr"
    /\ rRejected[1]
    /\ ~connected
    /\ ~authenticated

(***************************************************************************)
(* Identity: forced refresh, selection, use                                *)
(***************************************************************************)

\* How many entries of kind k the current call has logged.
Logged(k) == Cardinality({i \in DOMAIN fLog : fLog[i][1] = k})

\* The current call is returning the failure of an identity-dependent
\* operation: a command, a ping or the opening of a log stream.
SurfacesFailure ==
    /\ fpc = "ret"
    /\ fErr
    /\ \E k \in {"command", "ping", "stream"} : "fail" \in OutcomesOf(k)

\* C21: an operation that returns the failure of a command, a ping or the
\* opening of a log stream has made exactly one forced refresh.
C21_OneForcedRefreshBeforeFailure == SurfacesFailure => Logged("forced") = 1

(***************************************************************************)
(* Follow task: the reconnect loop                                         *)
(***************************************************************************)

\* C23: the retry counter goes back to zero only in a step that reads a
\* line without error; reopening the stream does not reset it.
C23_ResetOnlyAfterRead ==
    [][(retryCount > 0 /\ retryCount' = 0) => FollowReadLine]_vars

\* C24: with no end time, stop signal or cancellation, and every reconnect
\* reopening a stream that ends again, the task never ends and its retry
\* counter never reaches LogMaxRetries.
C24_ReconnectsForever == ~TaskEnded /\ retryCount < LogMaxRetries

\* Every line is delivered, the source gives nothing more, and a reopened
\* stream has ended again: the task waits to reconnect once more.
C24_Witness ==
    /\ pc = "backoff"
    /\ ~readerInitial
    /\ nProduced = MaxLines
    /\ lastLogTimestamp = MaxLines
    /\ retryCount = 1

\* The newest line passed to the data callback so far, 0 when there is none.
MaxDelivered ==
    LET D == {l \in Lines : delivered[l] > 0}
    IN  IF D = {} THEN 0 ELSE CHOOSE l \in D : \A m \in D : m <= l

ReadStep == pc = "read" /\ pc' # "read"

\* The buffer of a read step after the line read, if any, was appended.
BufferAfterRead ==
    IF readerPos' = readerPos + 1 THEN Append(buffer, readerPos) ELSE buffer

C27_RegistryLockNotHeldWhileWaiting ==
    ~( /\ spc = "scan"
       /\ regLocked
       /\ sToScan # {}
       /\ \A s \in sToScan : ~SessionMutexFree(sMutex[s]) )

(***************************************************************************)
(* Identity: the selection                                                 *)
(***************************************************************************)

\* The indices of the listed pods in phase ph.
InPhase(ph) == {k \in DOMAIN podItems : podItems[k].phase = ph}

\* C29: findAndUpdatePodInfo fails exactly when the List call fails or
\* the listing is empty; else it selects the first Running pod; without
\* one, a Succeeded pod whose start time no other Succeeded pod exceeds;
\* without one, the first pod.
C29_SelectionOrder ==
    [][SelectPod =>
         /\ findErr' = (listFailed' \/ podItems = <<>>)
         /\ ~findErr' =>
               IF InPhase("Running") # {}
               THEN /\ selectedPod' \in InPhase("Running")
                    /\ \A k \in InPhase("Running") : selectedPod' <= k
               ELSE IF InPhase("Succeeded") # {}
               THEN /\ selectedPod' \in InPhase("Succeeded")
                    /\ \A k \in InPhase("Succeeded") :
                          podItems[k].start <= podItems[selectedPod'].start
               ELSE selectedPod' = 1
      ]_vars

\* No pod is Running, two are Succeeded, and the later one, listed second,
\* was selected.
C29_Witness ==
    /\ ~findErr
    /\ Len(podItems) = MaxPods
    /\ InPhase("Running") = {}
    /\ podItems[1].phase = "Succeeded"
    /\ podItems[2].phase = "Succeeded"
    /\ podItems[1].start < podItems[2].start
    /\ selectedPod = 2

(***************************************************************************)
(* Identity: long-lived sessions                                           *)
(***************************************************************************)

\* C28: a command on a session, and a reconnect of its executor, go to
\* the instance the controller is bound to at that moment.
C28_SessionUsesCurrentIdentity ==
    [][\A s \in IdSessions :
          (IdSessionCommand(s) \/ IdSessionReconnect(s))
             => addressed'[s] = currentPodName
      ]_vars

(***************************************************************************)
(* Follow task: the reconnect path                                         *)
(***************************************************************************)

C32_NoUseOfReleasedStream ==
    /\ pc = "read" => ~streamNil
    /\ pc # "panic"

\* C33: FetchLogs returning to its caller leaves the stream the running
\* follow task reads as it is: open if it was open.
C33_ReturnKeepsStreamOpen ==
    [][FetchLogsReturn =>
         (pc \notin {"done", "panic"} /\ ~readerClosed => ~readerClosed')
      ]_vars

(***************************************************************************)
(* rconExecutor: the retry sequence of ExecuteCommand                      *)
(***************************************************************************)

\* C34: e.client.Command is invoked only while the session is connected
\* and authenticated.
C34_CommandOnlyWhenAuthenticated ==
    [][\A t \in Callers : ExecCommand(t) => connected /\ authenticated]_vars

\* C40: in ExecuteCommand e.mutex is held by the caller whenever it is
\* about to invoke e.client.Command (and to write the flags and unlock
\* behind it), and by no caller that has returned or has released it for
\* a Connect; connected and authenticated are written only by the holder
\* of the mutex, or by a Connect or Disconnect that found it free.
C40_LockDiscipline ==
    /\ [](\A t \in Callers : (rpc[t] = "cmd") <=> (rMutex = t))
    /\ [][(connected' # connected \/ authenticated' # authenticated) =>
            \/ rMutex = 0
            \/ \E t \in Callers : rMutex = t /\ ExecCommand(t)
         ]_vars

\* A call has used up its retries, with failed reconnects among them, and
\* returns the command error with the mutex released.
C40_Witness ==
    /\ rpc[1] = "ret"
    /\ rResult[1] = "cmdErr"
    /\ rRetry[1] = RconMaxRetries
    /\ rFails[1] > rAttempts[1]
    /\ rMutex = 0

(***************************************************************************)
(* Sessions: the removal loop of the sweep                                 *)
(***************************************************************************)

\* C35: a session the sweep takes out of the registry to close it is idle
\* at that moment.
C35_RemovedWhileIdle ==
    [][(SweepRemove /\ spc' = "closeLock") => sIdle[sCur']]_vars

\* C36: every id of the sweep's removal loop is in the registry when its
\* turn comes: the sweep never calls Close on the nil session of a missing
\* id.
C36_SweepFindsSession ==
    /\ spc # "panic"
    /\ spc \in {"closeLock", "inDisc"} => sCur \in Sessions

(***************************************************************************)
(* Identity: reads during a refresh                                        *)
(***************************************************************************)

\* C37: the name, the address and the phase a reader has read belong to
\* one and the same instance.
C37_ConsistentIdentity ==
    \A r \in Readers :
        obsPc[r] = "done" => obsName[r] = obsIP[r] /\ obsIP[r] = obsStatus[r]

(***************************************************************************)
(* websocket Manager and SSE Broker: the event loops                       *)
(***************************************************************************)

\* C38: the run loop never waits for the write lock of m.mutex while it
\* holds the mutex for reading itself, a wait that cannot end.
C38_RunLoopNeverBlocked == ~(wspc = "dropLock" /\ wsRLocked)

\* C39: a publish the listen loop has started comes to its end: the loop
\* is back at its select, where it serves the later connect, close and
\* publish events.
C39_PublishCompletes == (lpc # "select") ~> (lpc = "select")

====
